---- MODULE Spec2Model ----
(***************************************************************************)
(* Resilience layer of the KeyRetriever OpenAI proxy: the token-bucket     *)
(* RateLimiter, the counting Semaphore, the retrying OpenAIService and the *)
(* openaiProxy handler that composes them.                                 *)
(*                                                                         *)
(* Scheduling model: one Node.js event loop.  Code between two awaits runs *)
(* atomically, so every action below is one such synchronous block.        *)
(***************************************************************************)
EXTENDS Integers, Sequences, FiniteSets, TLC

VARIABLES
    sem,        \* openaiSemaphore: [permits, waitQueue, maxPermits]
    clients,    \* SemSpec: callers of Semaphore.acquire, client -> "idle" | "queued" | "holding"
                \* TokenSpec: also "spent" (token invoked once and kept) | "reused" (invoked twice)
    arrivals,   \* SemSpec observer: the queued clients in the order they called acquire
    woken,      \* SemSpec observer: holders whose permit was handed over by a release
    limiter,    \* globalRateLimiter: [buckets, globalRps, userRps]
    now,        \* Date.now(), in ms
    gateLog,    \* BurstSpec observer: one entry per request that reached the rate-limit checks
    twin,       \* LimiterSpec, StatusSpec: a reference RateLimiter run beside limiter, and
                \* the latest allow call: [limiter, last]
    retryConfig,\* OpenAIService.retryConfig: [maxRetries, baseDelayMs, maxDelayMs]
    call,       \* ChatSpec: one chatCompletion call (its locals, its position, observers)
    upstream,   \* ScriptSpec: the scripted provider: [script, issuedAt, settledAt]
    reqs,       \* Spec: the openaiProxy invocations, request -> its locals, position, response
    cache,      \* idempotencyCache: key -> [response, timestamp]
    validator   \* ValidSpec: one call of RequestValidator.validate: [pc, requestBody, result]

semVars == <<sem, clients, arrivals, woken>>
rateVars == <<limiter, now, gateLog, twin>>
chatVars == <<retryConfig, call, upstream>>
proxyVars == <<reqs, cache, validator>>
vars ==
    <<sem, clients, arrivals, woken, limiter, now, gateLog, twin, retryConfig, call, upstream, reqs, cache,
      validator>>

\* ------------------------------------------------------------------ bounds

\* Length of the scripts of upstream responses, and largest maxRetries, in
\* ScriptSpec.
MaxScript == 3

\* Callers of the bare Semaphore in SemSpec.
NClients == 4
\* Largest maxPermits a Semaphore is constructed with in SemSpec (0 included).
MaxPermits == 2

\* Largest cost passed to allow in RateSpec.
MaxCost == 2
\* Requests sent through the rate-limit checks in BurstSpec.
MaxBurst == 10

\* In SweepSpec: the most entries of the initial cache that were stored at
\* time 0.
MaxSweepOld == 3
\* In ValidSpec: the longest messages array, the longest message content and
\* the longest stop array drawn.
MaxDrawMessages == 51
MaxDrawContent == 4001
MaxDrawStop == 5

\* Invocations of openaiProxy in Spec.
NReq == 2
\* MAX_PARALLEL_AOAI, AOAI_MAX_RETRIES, RATE_LIMIT_GLOBAL_RPS and
\* RATE_LIMIT_USER_RPS as configured in Spec.
ProxyPermits == 1
ProxyMaxRetries == 2
ProxyGlobalRps == 2
ProxyUserRps == 1

\* ------------------------------------------------------------------ helpers

Min(a, b) == IF a < b THEN a ELSE b
Max(a, b) == IF a > b THEN a ELSE b

\* No client / no request: the waiter a release found when the queue was empty.
Nobody == 0

RemoveFrom(seq, x) == SelectSeq(seq, LAMBDA y : y # x)

\* ================================================================ Semaphore

\* constructor(maxPermits): permits = maxPermits, waitQueue = [].
SemaphoreNew(n) == [permits |-> n, waitQueue |-> <<>>, maxPermits |-> n]

\* waitQueue.push(closure): the closure is named by the caller it resolves.
WaitQueuePushLifo(q, c) == <<c>> \o q
WaitQueuePush(q, c) == Append(q, c)

\* waitQueue.shift(): the head and the rest; Nobody for an empty queue.
WaitQueueShiftLast(q) ==
    IF Len(q) = 0 THEN [next |-> Nobody, rest |-> q]
    ELSE [next |-> q[Len(q)], rest |-> SubSeq(q, 1, Len(q) - 1)]
WaitQueueShift(q) ==
    IF Len(q) = 0 THEN [next |-> Nobody, rest |-> q]
    ELSE [next |-> Head(q), rest |-> Tail(q)]

\* The queued closure: this.permits--; resolve(this.createRelease()).
WaiterBodyNoTake(s) == s
WaiterBody(s) == [s EXCEPT !.permits = @ - 1]

\* acquire(): the promise executor, run synchronously by the caller c.
SemAcquireOffByOne(s, c) ==
    IF s.permits >= 0
    THEN [sem |-> [s EXCEPT !.permits = @ - 1], granted |-> TRUE]
    ELSE [sem |-> [s EXCEPT !.waitQueue = WaitQueuePush(@, c)], granted |-> FALSE]
SemAcquire(s, c) ==
    IF s.permits > 0
    THEN [sem |-> [s EXCEPT !.permits = @ - 1], granted |-> TRUE]
    ELSE [sem |-> [s EXCEPT !.waitQueue = WaitQueuePush(@, c)], granted |-> FALSE]

\* The release token: permits++, then the head waiter (if any) runs at once.
SemReleaseCapped(s) ==
    LET s1 == [s EXCEPT !.permits = IF @ < s.maxPermits THEN @ + 1 ELSE @]
        sh == WaitQueueShift(s1.waitQueue)
        s2 == [s1 EXCEPT !.waitQueue = sh.rest]
    IN  IF sh.next # Nobody
        THEN [sem |-> WaiterBody(s2), next |-> sh.next]
        ELSE [sem |-> s2, next |-> Nobody]
SemRelease(s) ==
    LET s1 == [s EXCEPT !.permits = @ + 1]
        sh == WaitQueueShift(s1.waitQueue)
        s2 == [s1 EXCEPT !.waitQueue = sh.rest]
    IN  IF sh.next # Nobody
        THEN [sem |-> WaiterBody(s2), next |-> sh.next]
        ELSE [sem |-> s2, next |-> Nobody]

\* getStatus()
SemGetStatus(s) ==
    [availablePermits |-> s.permits, queueLength |-> Len(s.waitQueue),
     maxPermits |-> s.maxPermits]


\* ============================================================== RateLimiter
\* bucket.tokens is a float; the model keeps it exactly, in thousandths of a
\* token: tokens = tokensMilli / TokenScale.  (deltaMs / 1000) * refillRate
\* tokens are deltaMs * refillRate thousandths.

\* ms per second, the divisor of deltaMs in refillBucket.
TokenScale == 1000
\* RATE_LIMIT_GLOBAL_RPS and RATE_LIMIT_USER_RPS defaults.
DefaultGlobalRps == 8
DefaultUserRps == 2
\* cleanup(): buckets not refilled for 10 minutes are deleted.
BucketIdleMs == 600000

\* new RateLimiter(globalRps, userRps): no bucket yet.
RateLimiterNew(g, u) == [buckets |-> <<>>, globalRps |-> g, userRps |-> u]

\* `user:${userId}`
UserKey(userId) == "user:" \o userId

\* refillBucket(bucket) at Date.now() = t.
RefillBucketNoGuard(b, t) ==
    [b EXCEPT !.tokensMilli = Min(b.capacity * TokenScale, @ + (t - b.lastRefill) * b.refillRate),
              !.lastRefill = t]
RefillBucketNoCap(b, t) ==
    IF t - b.lastRefill > 0
    THEN [b EXCEPT !.tokensMilli = @ + (t - b.lastRefill) * b.refillRate,
                   !.lastRefill = t]
    ELSE b
RefillBucketSlow(b, t) ==
    LET deltaMs == t - b.lastRefill
    IN  IF deltaMs > 0
        THEN [b EXCEPT !.tokensMilli = Min(b.capacity * TokenScale,
                                           @ + (deltaMs * b.refillRate) \div 2),
                       !.lastRefill = t]
        ELSE b
RefillBucket(b, t) ==
    LET deltaMs == t - b.lastRefill
    IN  IF deltaMs > 0
        THEN [b EXCEPT !.tokensMilli = Min(b.capacity * TokenScale, @ + deltaMs * b.refillRate),
                       !.lastRefill = t]
        ELSE b

\* The bucket getBucket creates for a key seen for the first time.
NewBucket(rl, key, t) ==
    LET capacity == IF key = "global" THEN rl.globalRps ELSE rl.userRps
    IN  [tokensMilli |-> capacity * TokenScale, capacity |-> capacity,
         refillRate |-> capacity, lastRefill |-> t]

\* getBucket(key): the buckets map after the call (the bucket is buckets[key]).
GetBucket(rl, key, t) ==
    IF key \in DOMAIN rl.buckets THEN rl
    ELSE [rl EXCEPT !.buckets = (key :> NewBucket(rl, key, t)) @@ @]

\* if (bucket.tokens >= cost) { bucket.tokens -= cost; return true } return false
ConsumeAlways(b, cost) ==
    [bucket |-> [b EXCEPT !.tokensMilli = @ - cost * TokenScale], ok |-> TRUE]
Consume(b, cost) ==
    IF b.tokensMilli >= cost * TokenScale
    THEN [bucket |-> [b EXCEPT !.tokensMilli = @ - cost * TokenScale], ok |-> TRUE]
    ELSE [bucket |-> b, ok |-> FALSE]

\* allow(key, cost) at Date.now() = t: the limiter after the call and the result.
Allow(rl, key, cost, t) ==
    LET rl1 == GetBucket(rl, key, t)
        c == Consume(RefillBucket(rl1.buckets[key], t), cost)
    IN  [limiter |-> [rl1 EXCEPT !.buckets[key] = c.bucket], ok |-> c.ok]

\* cleanup() at Date.now() = t.
CleanupEager(rl, t) ==
    LET cutoffTime == t - 250
        kept == {k \in DOMAIN rl.buckets : ~(rl.buckets[k].lastRefill < cutoffTime)}
    IN  [rl EXCEPT !.buckets = [k \in kept |-> rl.buckets[k]]]
Cleanup(rl, t) ==
    LET cutoffTime == t - BucketIdleMs
        kept == {k \in DOMAIN rl.buckets : ~(rl.buckets[k].lastRefill < cutoffTime)}
    IN  [rl EXCEPT !.buckets = [k \in kept |-> rl.buckets[k]]]

\* getStatus() at Date.now() = t: it refills every bucket before reporting
\* Math.floor(tokens).
GetStatus(rl, t) ==
    LET refilled == [k \in DOMAIN rl.buckets |-> RefillBucket(rl.buckets[k], t)]
    IN  [limiter |-> [rl EXCEPT !.buckets = refilled],
         status |-> [bucketCount |-> Cardinality(DOMAIN rl.buckets),
                     buckets |-> [k \in DOMAIN rl.buckets |->
                                    [tokens |-> refilled[k].tokensMilli \div TokenScale,
                                     capacity |-> refilled[k].capacity,
                                     refillRate |-> refilled[k].refillRate]]]]

\* openaiProxy's rate limiting checks for a caller: allow('global', 1), then
\* allow('user:<id>', 1); a denial is answered 429 with Retry-After: 2.
RetryAfterThrottled == 2
RateLimitChecksGlobalOnly(rl, userId, t) ==
    LET g == Allow(rl, "global", 1, t)
        u == Allow(g.limiter, UserKey(userId), 1, t)
    IN  IF ~g.ok
        THEN [limiter |-> g.limiter, globalOk |-> FALSE, userOk |-> FALSE, userChecked |-> FALSE,
              status |-> 429, retryAfter |-> RetryAfterThrottled,
              error |-> "Global rate limit exceeded. Try again later."]
        ELSE [limiter |-> u.limiter, globalOk |-> TRUE, userOk |-> u.ok, userChecked |-> TRUE,
              status |-> 0, retryAfter |-> 0, error |-> ""]
RateLimitChecksRefund(rl, userId, t) ==
    LET g == Allow(rl, "global", 1, t)
        u == Allow(g.limiter, UserKey(userId), 1, t)
        refunded == [u.limiter EXCEPT !.buckets["global"] = GetBucket(rl, "global", t).buckets["global"]]
    IN  IF ~g.ok
        THEN [limiter |-> g.limiter, globalOk |-> FALSE, userOk |-> FALSE, userChecked |-> FALSE,
              status |-> 429, retryAfter |-> RetryAfterThrottled,
              error |-> "Global rate limit exceeded. Try again later."]
        ELSE IF ~u.ok
        THEN [limiter |-> refunded, globalOk |-> TRUE, userOk |-> FALSE, userChecked |-> TRUE,
              status |-> 429, retryAfter |-> RetryAfterThrottled,
              error |-> "User rate limit exceeded. Try again later."]
        ELSE [limiter |-> u.limiter, globalOk |-> TRUE, userOk |-> TRUE, userChecked |-> TRUE,
              status |-> 0, retryAfter |-> 0, error |-> ""]
RateLimitChecks(rl, userId, t) ==
    LET g == Allow(rl, "global", 1, t)
        u == Allow(g.limiter, UserKey(userId), 1, t)
    IN  IF ~g.ok
        THEN [limiter |-> g.limiter, globalOk |-> FALSE, userOk |-> FALSE, userChecked |-> FALSE,
              status |-> 429, retryAfter |-> RetryAfterThrottled,
              error |-> "Global rate limit exceeded. Try again later."]
        ELSE IF ~u.ok
        THEN [limiter |-> u.limiter, globalOk |-> TRUE, userOk |-> FALSE, userChecked |-> TRUE,
              status |-> 429, retryAfter |-> RetryAfterThrottled,
              error |-> "User rate limit exceeded. Try again later."]
        ELSE [limiter |-> u.limiter, globalOk |-> TRUE, userOk |-> TRUE, userChecked |-> TRUE,
              status |-> 0, retryAfter |-> 0, error |-> ""]

\* ============================================================ OpenAIService

\* AOAI_MAX_RETRIES, AOAI_BASE_DELAY_MS and AOAI_MAX_DELAY_MS defaults.
DefaultMaxRetries == 6
DefaultBaseDelayMs == 500
DefaultMaxDelayMs == 15000
\* Math.floor(Math.random() * 250) is in 0 .. JitterSpan - 1.
JitterSpan == 250
\* The cap of the sleep after a network error.
NetworkDelayCapMs == 5000

RetryConfigOf(n) ==
    [maxRetries |-> n, baseDelayMs |-> DefaultBaseDelayMs, maxDelayMs |-> DefaultMaxDelayMs]

\* A JavaScript number | undefined, as parseInt and the header lookup give it.
Undefined == [kind |-> "undefined", value |-> 0]
NaN == [kind |-> "NaN", value |-> 0]
Num(n) == [kind |-> "number", value |-> n]
\* The other JSON values: null, booleans (value 1 for true), texts (sequences
\* of characters) and arrays.
Null == [kind |-> "null", value |-> 0]
Bool(b) == [kind |-> "boolean", value |-> IF b THEN 1 ELSE 0]
Str(chars) == [kind |-> "string", chars |-> chars]
Arr(items) == [kind |-> "array", items |-> items]
\* if (x): undefined, null, NaN, 0, false and the empty text are falsy.
Truthy(x) ==
    CASE x.kind \in {"number", "boolean"} -> x.value # 0
      [] x.kind = "string" -> Len(x.chars) > 0
      [] x.kind = "array" -> TRUE
      [] OTHER -> FALSE

Digits == <<"0", "1", "2", "3", "4", "5", "6", "7", "8", "9">>
IsDigit(ch) == \E d \in 1..10 : Digits[d] = ch
DigitValue(ch) == (CHOOSE d \in 1..10 : Digits[d] = ch) - 1

\* The value of the longest prefix of decimal digits of chars, continuing acc.
RECURSIVE ParseDigits(_, _)
ParseDigits(chars, acc) ==
    IF Len(chars) = 0 \/ ~IsDigit(Head(chars)) THEN acc
    ELSE ParseDigits(Tail(chars), acc * 10 + DigitValue(Head(chars)))

RECURSIVE SkipSpaces(_)
SkipSpaces(chars) ==
    IF Len(chars) > 0 /\ Head(chars) = " " THEN SkipSpaces(Tail(chars)) ELSE chars

\* parseInt(text), text a sequence of characters: leading blanks, an optional
\* sign, then digits up to the first other character; NaN without a digit.
ParseInt(text) ==
    LET t == SkipSpaces(text)
        signed == Len(t) > 0 /\ Head(t) \in {"-", "+"}
        body == IF signed THEN Tail(t) ELSE t
        mag == ParseDigits(body, 0)
    IN  IF Len(body) = 0 \/ ~IsDigit(Head(body)) THEN NaN
        ELSE Num(IF signed /\ Head(t) = "-" THEN 0 - mag ELSE mag)

\* retryAfterHeader ? parseInt(retryAfterHeader) : undefined
\* (headers.get gives null for an absent header, modelled as the empty text).
RetryAfterOf(header) == IF Len(header) = 0 THEN Undefined ELSE ParseInt(header)

\* An AOAIError: status is absent (hasStatus FALSE) for network and parse
\* errors; text stands for what the message says and len for its length in
\* characters (kept for errors with a status only).
NoError ==
    [hasStatus |-> FALSE, status |-> 0, retryAfter |-> Undefined,
     isRetryable |-> FALSE, text |-> "none", len |-> 0]
PlainError(text) == [NoError EXCEPT !.text = text]

\* error.isRetryable = status === 429 || status >= 500
IsRetryableStatusLoose(status) == status = 429 \/ status >= 400
IsRetryableStatus(status) == status = 429 \/ status >= 500

\* The length of an error body: "long" stands for a body of 600 characters,
\* any other text for itself.
ErrorTextLength(text) == IF text = "long" THEN 600 ELSE Len(text)
\* errorText.slice(0, 500)
ErrorTextSlice == 500

\* new Error(`AOAI ${status}: ${errorText.slice(0, 500)}`) with status,
\* retryAfter and isRetryable set; "AOAI nnn: " is 10 characters.
HttpError(o) ==
    [hasStatus |-> TRUE, status |-> o.status, retryAfter |-> RetryAfterOf(o.retryAfterHeader),
     isRetryable |-> IsRetryableStatus(o.status), text |-> o.text,
     len |-> 10 + Min(ErrorTextLength(o.text), ErrorTextSlice)]

\* What a fetch came to: [kind: "http" | "network", status, retryAfterHeader,
\* bodyOk (the body could be read and parsed), text (what the body says)].
\* A fetch that rejects:
NetworkFailure ==
    [kind |-> "network", status |-> 0, retryAfterHeader |-> <<>>, bodyOk |-> FALSE, text |-> "none"]

\* throw: the call ends with this error.
Throw(c, e, how) == [c EXCEPT !.pc = "thrown", !.error = e, !.exit = how]

\* After the loop: throw lastError || new Error('All retries exhausted').
Exhausted(c) ==
    Throw(c, IF c.lastError = NoError THEN PlainError("All retries exhausted") ELSE c.lastError,
          "exhausted")

\* The for statement's test with attempt = a: another fetch, or the loop ends.
LoopTestOffByOne(c, rc, a) ==
    IF a <= rc.maxRetries + 1
    THEN [c EXCEPT !.attempt = a, !.pc = "fetch", !.issued = @ + 1]
    ELSE Exhausted([c EXCEPT !.attempt = a])
LoopTest(c, rc, a) ==
    IF a <= rc.maxRetries
    THEN [c EXCEPT !.attempt = a, !.pc = "fetch", !.issued = @ + 1]
    ELSE Exhausted([c EXCEPT !.attempt = a])

\* chatCompletion(...) up to its first await: the locals, then attempt 1.
ChatStart(rc) ==
    LoopTest([pc |-> "start", attempt |-> 1, delay |-> rc.baseDelayMs, lastError |-> NoError,
              waitMs |-> 0, sleepKind |-> "none", error |-> NoError, result |-> "",
              exit |-> "running",
              issued |-> 0, sleeps |-> 0, waited |-> 0, allRetryable |-> TRUE,
              lastStatus |-> 0, lastAttempt |-> 0],
             rc, 1)

\* chatCompletion has not been called.
NoCall ==
    [pc |-> "start", attempt |-> 0, delay |-> 0, lastError |-> NoError,
     waitMs |-> 0, sleepKind |-> "none", error |-> NoError, result |-> "",
     exit |-> "none",
     issued |-> 0, sleeps |-> 0, waited |-> 0, allRetryable |-> TRUE,
     lastStatus |-> 0, lastAttempt |-> 0]

\* await this.sleep(ms); setTimeout takes a negative ms as 0.  waited sums
\* the times asked for.
Sleep(c, ms, kind) ==
    [c EXCEPT !.pc = "sleep", !.waitMs = ms, !.sleepKind = kind,
              !.sleeps = @ + 1, !.waited = @ + Max(ms, 0)]

\* The catch block of the loop body, entered with error e.
CatchUncapped(c, rc, e) ==
    IF ~e.hasStatus
    THEN LET c1 == [c EXCEPT !.lastError = e]
         IN  IF c.attempt < rc.maxRetries
             THEN Sleep(c1, c.delay, "network")
             ELSE Throw(c1, e, "exhausted")
    ELSE Throw(c, e, "fatal")
Catch(c, rc, e) ==
    IF ~e.hasStatus
    THEN LET c1 == [c EXCEPT !.lastError = e]
         IN  IF c.attempt < rc.maxRetries
             THEN Sleep(c1, Min(c.delay, NetworkDelayCapMs), "network")
             ELSE Throw(c1, e, "exhausted")
    ELSE Throw(c, e, "fatal")

\* The wait after a retryable HTTP error: Retry-After if truthy, else the
\* capped delay plus jitter, doubling delay for the next time.
BackoffWaitIgnoreHint(c, rc, e, jitter) ==
    [waitMs |-> Min(c.delay, rc.maxDelayMs) + jitter,
     delay |-> Min(c.delay * 2, rc.maxDelayMs)]
BackoffWait(c, rc, e, jitter) ==
    IF Truthy(e.retryAfter)
    THEN [waitMs |-> e.retryAfter.value * 1000, delay |-> c.delay]
    ELSE [waitMs |-> Min(c.delay, rc.maxDelayMs) + jitter,
          delay |-> Min(c.delay * 2, rc.maxDelayMs)]

\* The loop body from the settled fetch to the next await or the exit.
\* o: what the upstream did; jitter: the Math.random() draw.
OnFetchSettled(c, rc, o, jitter) ==
    LET seen == [c EXCEPT !.lastStatus = IF o.kind = "http" THEN o.status ELSE 0,
                          !.lastAttempt = c.attempt,
                          !.allRetryable = @ /\ (o.kind = "network"
                                                  \/ o.status = 429 \/ o.status \in 500..599)]
    IN  IF o.kind = "network"
        THEN Catch(seen, rc, PlainError("network"))
        ELSE IF o.status \in 200..299
        THEN IF o.bodyOk
             THEN [seen EXCEPT !.pc = "returned", !.result = o.text, !.exit = "success"]
             ELSE Catch(seen, rc, PlainError("parse"))
        ELSE LET e == HttpError(o)
             IN  IF ~e.isRetryable
                 THEN Catch(seen, rc, e)
                 ELSE LET c1 == [seen EXCEPT !.lastError = e]
                          w == BackoffWait(c1, rc, e, jitter)
                      IN  IF c1.attempt = rc.maxRetries
                          THEN Exhausted(c1)
                          ELSE Sleep([c1 EXCEPT !.delay = w.delay], w.waitMs, "backoff")

\* The sleep is over: after a network error delay *= 2; continue; then the
\* loop's attempt++ and its test.
OnSleepDone(c, rc) ==
    LET c1 == IF c.sleepKind = "network" THEN [c EXCEPT !.delay = @ * 2] ELSE c
    IN  LoopTest([c1 EXCEPT !.waitMs = 0, !.sleepKind = "none"], rc, c.attempt + 1)

\* =================================================================== Logger
\* A log call's fields are a record from field name to the kind of data the
\* field carries: "id", "count", "flag", "status", "timing", "hash",
\* "errorMessage" (the message of an exception without HTTP status),
\* "upstreamBody" (text of the provider's response body), "apiKey",
\* "messageContent", "undefined".

\* sanitizeFields(fields): apiKey is overwritten, messages and content are
\* deleted, every other field is kept as it is.
SanitizeFields(fields) ==
    [k \in DOMAIN fields \ {"messages", "content"} |->
        IF k = "apiKey" THEN "redacted" ELSE fields[k]]

\* The message of an AOAIError: `AOAI ${status}: ${errorText.slice(0, 500)}`
\* for an error with status, the exception's own message otherwise.
MessageKind(e) == IF e.hasStatus THEN "upstreamBody" ELSE "errorMessage"

\* The log entries chatCompletion wrote in the run of code that brought the
\* call to c (from the settled await, or the call's start, to where c is).
ChatLogged(c) ==
    LET attemptLog == [requestId |-> "id", attempt |-> "count", deployment |-> "id",
                       messageCount |-> "count", maxTokens |-> "count"]
        successLog == [requestId |-> "id", attempt |-> "count", status |-> "status",
                       totalTokens |-> "count"]
        errorLog == [requestId |-> "id", attempt |-> "count", status |-> "status",
                     retryAfter |-> "timing", isRetryable |-> "flag",
                     errorPreview |-> "upstreamBody"]
        honourLog == [requestId |-> "id", waitMs |-> "timing"]
        retryLog == [requestId |-> "id", attempt |-> "count", nextAttempt |-> "count",
                     waitMs |-> "timing"]
        networkLog == [requestId |-> "id", attempt |-> "count", error |-> "errorMessage"]
        exhaustedLog == [requestId |-> "id", maxRetries |-> "count",
                         lastError |-> IF c.lastError = NoError THEN "undefined"
                                       ELSE MessageKind(c.lastError)]
        written ==
            IF c.pc = "fetch" THEN {attemptLog}
            ELSE IF c.pc = "returned" THEN {successLog}
            ELSE IF c.pc = "sleep" /\ c.sleepKind = "network" THEN {networkLog}
            ELSE IF c.pc = "sleep"
            THEN {errorLog, retryLog}
                    \cup (IF Truthy(c.lastError.retryAfter) THEN {honourLog} ELSE {})
            ELSE IF c.pc = "thrown" /\ c.exit = "fatal" THEN {errorLog}
            ELSE IF c.pc = "thrown" /\ c.error.hasStatus THEN {errorLog, exhaustedLog}
            ELSE IF c.pc = "thrown" /\ c.lastError = NoError THEN {exhaustedLog}
            ELSE IF c.pc = "thrown" THEN {networkLog}
            ELSE {}
    IN  {SanitizeFields(fields) : fields \in written}

\* ========================================================= RequestValidator

\* VALIDATION_MAX_MESSAGES and VALIDATION_MAX_MESSAGE_LENGTH defaults.
MaxMessages == 50
MaxMessageLength == 4000

Roles == {"system", "user", "assistant"}

RECURSIVE TrimLeft(_)
TrimLeft(chars) ==
    IF Len(chars) > 0 /\ Head(chars) = " " THEN TrimLeft(Tail(chars)) ELSE chars
RECURSIVE TrimRight(_)
TrimRight(chars) ==
    IF Len(chars) > 0 /\ chars[Len(chars)] = " "
    THEN TrimRight(SubSeq(chars, 1, Len(chars) - 1)) ELSE chars
\* content.trim()
Trim(chars) == TrimRight(TrimLeft(chars))

\* The index of the first message the loop rejects, 0 if there is none.
FirstBadMessage(messages) ==
    LET bad == {i \in 1..Len(messages) :
                  \/ messages[i].role \notin Roles
                  \/ Len(messages[i].content) = 0
                  \/ Len(messages[i].content) > MaxMessageLength}
    IN  IF bad = {} THEN 0 ELSE CHOOSE i \in bad : \A j \in bad : i <= j

\* VALIDATION_MAX_TOKENS default, and the most stop sequences accepted.
MaxTokens == 4000
MaxStopSequences == 4

\* Number(x), for the values drawn here: whole numbers, null, booleans, and
\* texts that are blank, a whole number with an optional sign, or no number.
ToNumber(x) ==
    CASE x.kind \in {"number", "boolean", "null"} -> Num(x.value)
      [] x.kind = "string" ->
           LET t == Trim(x.chars)
               n == ParseInt(t)
               body == IF Len(t) > 0 /\ Head(t) \in {"-", "+"} THEN Tail(t) ELSE t
           IN  IF Len(t) = 0 THEN Num(0)
               ELSE IF \A i \in 1..Len(body) : IsDigit(body[i]) THEN n
               ELSE NaN
      [] x.kind = "array" -> IF Len(x.items) = 0 THEN Num(0) ELSE NaN
      [] OTHER -> NaN

\* requestBody.messages.length > this.MAX_MESSAGES
TooManyMessagesOffByOne(messages) == Len(messages) >= MaxMessages
TooManyMessages(messages) == Len(messages) > MaxMessages

\* requestBody.stream === true
StreamRequestedNever(requestBody) == FALSE
StreamRequested(requestBody) == requestBody.stream = Bool(TRUE)

\* A sampling parameter that is present and, as a number, NaN or outside
\* lo..hi.
OutOfRangeAbove(x, lo, hi) ==
    /\ x # Undefined
    /\ LET n == ToNumber(x)
       IN  n.kind = "NaN" \/ n.value < lo
OutOfRange(x, lo, hi) ==
    /\ x # Undefined
    /\ LET n == ToNumber(x)
       IN  n.kind = "NaN" \/ n.value < lo \/ n.value > hi

\* The body validate is given by openaiProxy, or any other: each field a JSON
\* value, Undefined for an absent one.
RequestBody(messages, maxTokens, temperature, topP, frequency, presence, stop, stream) ==
    [messages |-> messages, max_tokens |-> maxTokens, temperature |-> temperature,
     top_p |-> topP, frequency_penalty |-> frequency, presence_penalty |-> presence,
     stop |-> stop, stream |-> stream]

\* validate(requestBody) for a body that is an object.  The elements of a
\* messages array are objects {role, content} whose role is a text ("" for
\* none) and whose content is a text, a sequence of characters.
Validate(requestBody) ==
    LET messages == requestBody.messages.items
        bad == FirstBadMessage(messages)
        stop == requestBody.stop
        fail(error) == [ok |-> FALSE, error |-> error, sanitizedRequest |-> [messages |-> <<>>]]
        numeric == {k \in {"max_tokens", "temperature", "top_p", "frequency_penalty",
                           "presence_penalty"} : requestBody[k] # Undefined}
        present == {"messages"} \cup numeric \cup (IF stop # Undefined THEN {"stop"} ELSE {})
        sanitizedRequest ==
            [k \in present |->
                IF k = "messages"
                THEN [i \in 1..Len(messages) |->
                        [role |-> messages[i].role, content |-> Trim(messages[i].content)]]
                ELSE IF k = "stop"
                THEN IF stop.kind = "array"
                     THEN Arr(SelectSeq(stop.items,
                                        LAMBDA x : x.kind = "string" /\ Len(x.chars) > 0))
                     ELSE stop
                ELSE ToNumber(requestBody[k])]
    IN  IF ~Truthy(requestBody.messages) \/ requestBody.messages.kind # "array"
        THEN fail("Messages array is required")
        ELSE IF Len(messages) = 0 THEN fail("At least one message is required")
        ELSE IF TooManyMessages(messages) THEN fail("Too many messages")
        ELSE IF bad # 0 /\ messages[bad].role \notin Roles
        THEN fail("Message must have a valid role")
        ELSE IF bad # 0 /\ Len(messages[bad].content) = 0
        THEN fail("Message must have content as a string")
        ELSE IF bad # 0 THEN fail("Message content too long")
        ELSE IF OutOfRange(requestBody.max_tokens, 1, MaxTokens)
        THEN fail("max_tokens must be between 1 and 4000")
        ELSE IF OutOfRange(requestBody.temperature, 0, 2)
        THEN fail("temperature must be between 0 and 2")
        ELSE IF OutOfRange(requestBody.top_p, 0, 1)
        THEN fail("top_p must be between 0 and 1")
        ELSE IF OutOfRange(requestBody.frequency_penalty, -2, 2)
        THEN fail("frequency_penalty must be between -2 and 2")
        ELSE IF OutOfRange(requestBody.presence_penalty, -2, 2)
        THEN fail("presence_penalty must be between -2 and 2")
        ELSE IF stop.kind = "array" /\ Len(stop.items) > MaxStopSequences
        THEN fail("stop array cannot have more than 4 sequences")
        ELSE IF stop # Undefined /\ stop.kind # "array"
                  /\ ~(stop.kind = "string" /\ Len(stop.chars) > 0)
        THEN fail("stop must be a string or array of strings")
        ELSE IF StreamRequested(requestBody)
        THEN fail("Streaming is not supported through the proxy")
        ELSE [ok |-> TRUE, error |-> "", sanitizedRequest |-> sanitizedRequest]

\* const { deployment: _, ...openaiRequestBody } = requestBody, for the bodies
\* the proxy is sent in Spec: a messages array and a stream flag.
OpenaiRequestBody(body) ==
    RequestBody(Arr(body.messages), Undefined, Undefined, Undefined, Undefined, Undefined,
                Undefined, Bool(body.stream))

\* extractUserId(headers) for an x-user-id header of letters and digits (the
\* empty text: no such header and no authorization header).
ExtractUserId(xUserId) == IF xUserId = "" THEN "anon" ELSE xUserId

\* ============================================================== openaiProxy

\* The default allow-list of isOriginAllowed.
AllowedOrigins ==
    {"https://gentle-moss-087d9321e.1.azurestaticapps.net",
     "http://localhost:3000", "https://localhost:3000"}
IsOriginAllowed(origin) == origin \in AllowedOrigins

\* A cached response is served while younger than this.
IdempotencyTtlMs == 300000
\* The cache is swept of entries older than CacheRetentionMs once it holds
\* more than CacheSweepSize entries.
CacheSweepSize == 1000
CacheRetentionMs == 600000
\* Retry-After of the answer to an upstream 429 or 5xx.
RetryAfterUpstream == 5

\* aoaiError.message?.slice(0, 300)
DetailSlice == 300

\* A response: retryAfter 0 stands for no Retry-After header, detailLen for
\* the length of the body's detail (0: none).
NoResponse ==
    [status |-> 0, retryAfter |-> 0, success |-> FALSE, error |-> "", errorType |-> "",
     detailLen |-> 0, data |-> "", from |-> "none"]
Failure(status, retryAfter, error, errorType) ==
    [status |-> status, retryAfter |-> retryAfter, success |-> FALSE, error |-> error,
     errorType |-> errorType, detailLen |-> 0, data |-> "", from |-> "proxy"]

Success(data, from) ==
    [status |-> 200, retryAfter |-> 0, success |-> TRUE, error |-> "", errorType |-> "",
     detailLen |-> 0, data |-> data, from |-> from]

\* An invocation before its request has arrived.
NewRequest ==
    [pc |-> "idle", userId |-> "", idempotencyKey |-> "", granted |-> FALSE,
     call |-> NoCall, response |-> NoResponse,
     \* observers: the request's method and, of a POST, its Origin header
     \* ("" when absent); what the invocation went through
     method |-> "", origin |-> "",
     gated |-> FALSE, globalOk |-> FALSE, userChecked |-> FALSE, userOk |-> FALSE,
     bodyRead |-> FALSE, staleSeen |-> FALSE, validated |-> FALSE,
     \* what request.json() came to and whether the body named a deployment
     bodyKind |-> "", hasDeployment |-> FALSE,
     acquires |-> 0, releases |-> 0]

\* return {status, ...}: the invocation is over and its locals are gone; of
\* its call the observers keep how it ended (exit, error, result, counts).
Respond(req, response) ==
    [req EXCEPT !.pc = "done", !.response = response, !.granted = FALSE,
                !.userId = "", !.idempotencyKey = "",
                !.call = [@ EXCEPT !.pc = IF @ \in {"returned", "thrown"} THEN @ ELSE "start",
                                   !.attempt = 0, !.delay = 0, !.lastError = NoError,
                                   !.waitMs = 0, !.sleepKind = "none"]]

\* The outer catch block: the response for a thrown error.  An error body
\* that contains the marker is modelled by the text being the marker.
ErrorResponseNoSlice(e) ==
    IF e.hasStatus /\ (e.status = 429 \/ e.status >= 500)
    THEN Failure(429, RetryAfterUpstream,
                 "Upstream service is temporarily unavailable. Please try again later.", "")
    ELSE IF e.hasStatus /\ e.status >= 400 /\ e.status < 500
    THEN [Failure(502, 0, "Invalid request to upstream service", "") EXCEPT !.detailLen = e.len]
    ELSE Failure(500, 0, "Internal server error", "")
ErrorResponseNoRetryAfter(e) ==
    IF e.hasStatus /\ (e.status = 429 \/ e.status >= 500)
    THEN Failure(429, 0,
                 "Upstream service is temporarily unavailable. Please try again later.", "")
    ELSE Failure(500, 0, "Internal server error", "")
ErrorResponse(e) ==
    IF e.hasStatus /\ (e.status = 429 \/ e.status >= 500)
    THEN Failure(429, RetryAfterUpstream,
                 "Upstream service is temporarily unavailable. Please try again later.", "")
    ELSE IF e.hasStatus /\ e.status >= 400 /\ e.status < 500
    THEN IF e.status = 400 /\ e.text = "content management policy"
         THEN [Failure(400, 0, "Content filtered by Azure OpenAI policy", "content_filter")
                 EXCEPT !.detailLen = 114]
         ELSE [Failure(502, 0, "Invalid request to upstream service", "")
                 EXCEPT !.detailLen = Min(e.len, DetailSlice)]
    ELSE Failure(500, 0, "Internal server error", "")

\* From the start of openaiProxy to await request.json(): method, origin,
\* the two rate-limit checks.  Gives the invocation and the limiter.
ProxyStartOriginLast(req, rl, t, method, origin, xUserId) ==
    LET from == [req EXCEPT !.method = method]
        post == [from EXCEPT !.origin = origin]
        userId == ExtractUserId(xUserId)
        c == RateLimitChecks(rl, userId, t)
        seen == [post EXCEPT !.userId = userId, !.gated = TRUE, !.globalOk = c.globalOk,
                             !.userChecked = c.userChecked, !.userOk = c.userOk]
    IN  IF method = "OPTIONS"
        THEN [req |-> Respond(from, [NoResponse EXCEPT !.status = 200, !.from = "proxy"]),
              limiter |-> rl]
        ELSE IF method # "POST"
        THEN [req |-> Respond(from, Failure(405, 0, "Method not allowed", "")), limiter |-> rl]
        ELSE IF c.status # 0
        THEN [req |-> Respond(seen, Failure(c.status, c.retryAfter, c.error, "")),
              limiter |-> c.limiter]
        ELSE IF origin # "" /\ ~IsOriginAllowed(origin)
        THEN [req |-> Respond(post, Failure(403, 0, "Origin not allowed", "")),
              limiter |-> c.limiter]
        ELSE [req |-> [seen EXCEPT !.pc = "awaitBody"], limiter |-> c.limiter]
ProxyStart(req, rl, t, method, origin, xUserId) ==
    LET from == [req EXCEPT !.method = method]
        post == [from EXCEPT !.origin = origin]
    IN  IF method = "OPTIONS"
        THEN [req |-> Respond(from, [NoResponse EXCEPT !.status = 200, !.from = "proxy"]),
              limiter |-> rl]
        ELSE IF method # "POST"
        THEN [req |-> Respond(from, Failure(405, 0, "Method not allowed", "")), limiter |-> rl]
        ELSE IF origin # "" /\ ~IsOriginAllowed(origin)
        THEN [req |-> Respond(post, Failure(403, 0, "Origin not allowed", "")), limiter |-> rl]
        ELSE LET userId == ExtractUserId(xUserId)
                 c == RateLimitChecks(rl, userId, t)
                 seen == [post EXCEPT !.userId = userId, !.gated = TRUE,
                                      !.globalOk = c.globalOk,
                                      !.userChecked = c.userChecked, !.userOk = c.userOk]
             IN  IF c.status # 0
                 THEN [req |-> Respond(seen, Failure(c.status, c.retryAfter, c.error, "")),
                       limiter |-> c.limiter]
                 ELSE [req |-> [seen EXCEPT !.pc = "awaitBody"], limiter |-> c.limiter]

\* idempotencyCache.get(key) is a live entry at time t.
CacheHitAnyAge(cacheMap, key, t) ==
    /\ key # ""
    /\ key \in DOMAIN cacheMap
CacheHit(cacheMap, key, t) ==
    /\ key # ""
    /\ key \in DOMAIN cacheMap
    /\ t - cacheMap[key].timestamp < IdempotencyTtlMs

\* From the settled request.json() to await getOpenAIConfig(): body present,
\* idempotency lookup, deployment, validation.
\* body: [kind, deployment, messages, stream], kind being "unparseable"
\* (request.json() rejects: no body, or not JSON), "null" (a falsy JSON value),
\* "scalar" (a truthy JSON value that is not an object: its deployment is
\* undefined) or "object".
ProxyBodyValidateFirst(req, cacheMap, t, body, idempotencyKey) ==
    LET read == [req EXCEPT !.bodyRead = TRUE, !.bodyKind = body.kind,
                            !.hasDeployment = body.deployment # ""]
        validation == Validate(OpenaiRequestBody(body))
        checked == [read EXCEPT !.validated = TRUE, !.idempotencyKey = idempotencyKey]
    IN  IF body.kind = "unparseable"
        THEN Respond(read, ErrorResponse(PlainError("json")))
        ELSE IF body.kind = "null"
        THEN Respond(read, Failure(400, 0, "Request body is required", ""))
        ELSE IF ~validation.ok
        THEN Respond(checked, Failure(400, 0, validation.error, ""))
        ELSE IF CacheHit(cacheMap, idempotencyKey, t)
        THEN Respond(checked, [cacheMap[idempotencyKey].response EXCEPT !.from = "cache"])
        ELSE IF body.deployment = ""
        THEN Respond(checked, Failure(400, 0, "Deployment name is required", ""))
        ELSE [checked EXCEPT !.pc = "awaitConfig"]
ProxyBodyDeploymentFirst(req, cacheMap, t, body, idempotencyKey) ==
    LET read == [req EXCEPT !.bodyRead = TRUE, !.bodyKind = body.kind,
                            !.hasDeployment = body.deployment # ""]
    IN  IF body.kind = "unparseable"
        THEN Respond(read, ErrorResponse(PlainError("json")))
        ELSE IF body.kind = "null"
        THEN Respond(read, Failure(400, 0, "Request body is required", ""))
        ELSE IF body.deployment = ""
        THEN Respond([read EXCEPT !.idempotencyKey = idempotencyKey],
                     Failure(400, 0, "Deployment name is required", ""))
        ELSE IF CacheHit(cacheMap, idempotencyKey, t)
        THEN Respond([read EXCEPT !.idempotencyKey = idempotencyKey],
                     [cacheMap[idempotencyKey].response EXCEPT !.from = "cache"])
        ELSE LET validation == Validate(OpenaiRequestBody(body))
                 checked == [read EXCEPT !.validated = TRUE, !.idempotencyKey = idempotencyKey,
                                         !.staleSeen = idempotencyKey \in DOMAIN cacheMap]
             IN  IF ~validation.ok
                 THEN Respond(checked, Failure(400, 0, validation.error, ""))
                 ELSE [checked EXCEPT !.pc = "awaitConfig"]
ProxyBody(req, cacheMap, t, body, idempotencyKey) ==
    LET read == [req EXCEPT !.bodyRead = TRUE, !.bodyKind = body.kind,
                            !.hasDeployment = body.deployment # ""]
    IN  IF body.kind = "unparseable"
        THEN Respond(read, ErrorResponse(PlainError("json")))
        ELSE IF body.kind = "null"
        THEN Respond(read, Failure(400, 0, "Request body is required", ""))
        ELSE IF CacheHit(cacheMap, idempotencyKey, t)
        THEN Respond([read EXCEPT !.idempotencyKey = idempotencyKey],
                     [cacheMap[idempotencyKey].response EXCEPT !.from = "cache"])
        ELSE IF body.deployment = ""
        THEN Respond([read EXCEPT !.idempotencyKey = idempotencyKey],
                     Failure(400, 0, "Deployment name is required", ""))
        ELSE LET validation == Validate(OpenaiRequestBody(body))
                 checked == [read EXCEPT !.validated = TRUE, !.idempotencyKey = idempotencyKey,
                                         !.staleSeen = idempotencyKey \in DOMAIN cacheMap]
             IN  IF ~validation.ok
                 THEN Respond(checked, Failure(400, 0, validation.error, ""))
                 ELSE [checked EXCEPT !.pc = "awaitConfig"]

\* From the settled getOpenAIConfig() to await openaiSemaphore.acquire().
\* Gives the invocation r and the semaphore.
ProxyConfig(req, r, s, configOk) ==
    IF ~configOk
    THEN [req |-> Respond(req, ErrorResponse(PlainError("config"))), sem |-> s]
    ELSE LET a == SemAcquire(s, r)
         IN  [req |-> [req EXCEPT !.pc = "awaitPermit", !.granted = a.granted,
                                  !.acquires = @ + (IF a.granted THEN 1 ELSE 0)],
              sem |-> a.sem]

\* idempotencyCache.set(...) and the sweep that follows it.
CachePutSweepInclusive(cacheMap, key, response, t) ==
    LET put == (key :> [response |-> response, timestamp |-> t]) @@ cacheMap
        cutoff == t - CacheRetentionMs
        kept == {k \in DOMAIN put : put[k].timestamp > cutoff}
    IN  IF Cardinality(DOMAIN put) > CacheSweepSize
        THEN [k \in kept |-> put[k]]
        ELSE put
CachePut(cacheMap, key, response, t) ==
    LET put == (key :> [response |-> response, timestamp |-> t]) @@ cacheMap
        cutoff == t - CacheRetentionMs
        kept == {k \in DOMAIN put : ~(put[k].timestamp < cutoff)}
    IN  IF Cardinality(DOMAIN put) > CacheSweepSize
        THEN [k \in kept |-> put[k]]
        ELSE put

\* The end of the try block around chatCompletion, entered with the call
\* returned or thrown: store and answer, or the catch block's answer; in
\* both cases the finally block's release() runs first.
\* Gives the invocation, the semaphore, the waiter woken and the cache.
ProxyFinishNoFinally(req, s, cacheMap, t) ==
    LET rel == SemRelease(s)
        successResponse == Success(req.call.result, "upstream")
    IN  IF req.call.pc = "returned"
        THEN [req |-> Respond([req EXCEPT !.releases = @ + 1], successResponse),
              sem |-> rel.sem, next |-> rel.next,
              cache |-> IF req.idempotencyKey # ""
                        THEN CachePut(cacheMap, req.idempotencyKey, successResponse, t)
                        ELSE cacheMap]
        ELSE [req |-> Respond(req, ErrorResponse(req.call.error)),
              sem |-> s, next |-> Nobody, cache |-> cacheMap]
ProxyFinishCacheErrors(req, s, cacheMap, t) ==
    LET rel == SemRelease(s)
        successResponse == Success(req.call.result, "upstream")
        released == [req EXCEPT !.releases = @ + 1]
        answer == IF req.call.pc = "returned" THEN successResponse ELSE ErrorResponse(req.call.error)
    IN  [req |-> Respond(released, answer), sem |-> rel.sem, next |-> rel.next,
         cache |-> IF req.idempotencyKey # ""
                   THEN CachePut(cacheMap, req.idempotencyKey, answer, t)
                   ELSE cacheMap]
ProxyFinish(req, s, cacheMap, t) ==
    LET rel == SemRelease(s)
        successResponse == Success(req.call.result, "upstream")
        released == [req EXCEPT !.releases = @ + 1]
    IN  IF req.call.pc = "returned"
        THEN [req |-> Respond(released, successResponse),
              sem |-> rel.sem, next |-> rel.next,
              cache |-> IF req.idempotencyKey # ""
                        THEN CachePut(cacheMap, req.idempotencyKey, successResponse, t)
                        ELSE cacheMap]
        ELSE [req |-> Respond(released, ErrorResponse(req.call.error)),
              sem |-> rel.sem, next |-> rel.next, cache |-> cacheMap]

\* ------------------------------------------------------- unused components
\* Each specification below drives some of the variables and leaves the rest
\* at these values.

Clients == 1..NClients

SemObserversOff ==
    /\ clients = [c \in Clients |-> "idle"]
    /\ arrivals = <<>>
    /\ woken = {}

SemOff ==
    /\ sem = SemaphoreNew(0)
    /\ SemObserversOff

\* No reference limiter is run.
NoTwin == [limiter |-> RateLimiterNew(0, 0), last |-> <<>>]

RateOff ==
    /\ limiter = RateLimiterNew(DefaultGlobalRps, DefaultUserRps)
    /\ now = 0
    /\ gateLog = <<>>
    /\ twin = NoTwin

\* No scripted provider: fetch is answered as the specification chooses.
NoUpstream == [script |-> <<>>, issuedAt |-> <<>>, settledAt |-> <<>>]

ChatOff ==
    /\ retryConfig = RetryConfigOf(DefaultMaxRetries)
    /\ call = NoCall
    /\ upstream = NoUpstream

Requests == 1..NReq

\* validate has not been called.
NoValidation == [pc |-> "off"]

ProxyOff ==
    /\ reqs = [r \in Requests |-> NewRequest]
    /\ cache = <<>>
    /\ validator = NoValidation

\* ------------------------------------------------- Spec: the whole proxy
\* Up to NReq invocations of openaiProxy run concurrently on the event loop and
\* share the limiter, the semaphore and the idempotency cache.  An action is
\* the code an invocation runs between two awaits.

Methods == {"POST", "OPTIONS", "GET"}
Origins == {"", "http://localhost:3000", "https://evil.example"}
UserHeaders == {"", "alice"}
IdempotencyKeys == {"", "key-1"}
ProxyReadings == {0, IdempotencyTtlMs}

OneMessage == <<[role |-> "user", content |-> <<" ", "h", "i">>]>>
ProxyBodies ==
    {[kind |-> "unparseable", deployment |-> "", messages |-> <<>>, stream |-> FALSE],
     [kind |-> "null", deployment |-> "", messages |-> <<>>, stream |-> FALSE],
     [kind |-> "scalar", deployment |-> "", messages |-> <<>>, stream |-> FALSE],
     [kind |-> "object", deployment |-> "", messages |-> OneMessage, stream |-> FALSE],
     [kind |-> "object", deployment |-> "gpt-4o", messages |-> <<>>, stream |-> FALSE],
     [kind |-> "object", deployment |-> "gpt-4o", messages |-> OneMessage, stream |-> TRUE],
     [kind |-> "object", deployment |-> "gpt-4o", messages |-> OneMessage, stream |-> FALSE]}

ProxyOutcomes ==
    {NetworkFailure,
     [kind |-> "http", status |-> 200, retryAfterHeader |-> <<>>, bodyOk |-> TRUE, text |-> "json"],
     [kind |-> "http", status |-> 400, retryAfterHeader |-> <<>>, bodyOk |-> TRUE,
      text |-> "content management policy"],
     [kind |-> "http", status |-> 400, retryAfterHeader |-> <<>>, bodyOk |-> TRUE, text |-> "long"],
     [kind |-> "http", status |-> 403, retryAfterHeader |-> <<>>, bodyOk |-> TRUE,
      text |-> "content management policy"],
     [kind |-> "http", status |-> 401, retryAfterHeader |-> <<>>, bodyOk |-> TRUE, text |-> "other"],
     [kind |-> "http", status |-> 429, retryAfterHeader |-> <<"1">>, bodyOk |-> TRUE, text |-> "other"],
     [kind |-> "http", status |-> 500, retryAfterHeader |-> <<>>, bodyOk |-> TRUE, text |-> "other"]}

Init ==
    /\ sem = SemaphoreNew(ProxyPermits)
    /\ limiter = RateLimiterNew(ProxyGlobalRps, ProxyUserRps)
    /\ now = 0
    /\ retryConfig = RetryConfigOf(ProxyMaxRetries)
    /\ reqs = [r \in Requests |-> NewRequest]
    /\ cache = <<>>
    /\ SemObserversOff
    /\ gateLog = <<>>
    /\ twin = NoTwin
    /\ call = NoCall
    /\ upstream = NoUpstream
    /\ validator = NoValidation

observerVars == <<clients, arrivals, woken, gateLog, twin, call, upstream, validator>>

\* The waiter a release resolved has its permit: its await will resume.
Wake(rs, next) ==
    IF next = Nobody THEN rs
    ELSE [rs EXCEPT ![next].granted = TRUE, ![next].acquires = @ + 1]

\* A request arrives and runs up to await request.json() or its answer.
Arrive(r, method, origin, xUserId) ==
    /\ reqs[r].pc = "idle"
    /\ LET p == ProxyStart(reqs[r], limiter, now, method, origin, xUserId)
       IN  /\ reqs' = [reqs EXCEPT ![r] = p.req]
           /\ limiter' = p.limiter
    /\ UNCHANGED <<sem, now, retryConfig, cache, observerVars>>

\* request.json() settles.
BodyParsed(r, body, idempotencyKey) ==
    /\ reqs[r].pc = "awaitBody"
    /\ reqs' = [reqs EXCEPT ![r] = ProxyBody(reqs[r], cache, now, body, idempotencyKey)]
    /\ UNCHANGED <<sem, limiter, now, retryConfig, cache, observerVars>>

\* getOpenAIConfig() settles; on success acquire() is called.
ConfigResolved(r, configOk) ==
    /\ reqs[r].pc = "awaitConfig"
    /\ LET p == ProxyConfig(reqs[r], r, sem, configOk)
       IN  /\ reqs' = [reqs EXCEPT ![r] = p.req]
           /\ sem' = p.sem
    /\ UNCHANGED <<limiter, now, retryConfig, cache, observerVars>>

\* An invocation whose call has returned or thrown leaves the try block.
Finish(r, req) ==
    LET p == ProxyFinish(req, sem, cache, now)
    IN  /\ reqs' = Wake([reqs EXCEPT ![r] = p.req], p.next)
        /\ sem' = p.sem
        /\ cache' = p.cache

\* The invocation r with its chatCompletion call at c.
ContinueReleasing(r, c) ==
    LET req == [reqs[r] EXCEPT !.pc = "upstream", !.call = c]
        rel == SemRelease(sem)
    IN  IF c.pc \in {"returned", "thrown"}
        THEN Finish(r, req)
        ELSE IF c.pc = "sleep"
        THEN /\ reqs' = Wake([reqs EXCEPT ![r] = [req EXCEPT !.releases = @ + 1]], rel.next)
             /\ sem' = rel.sem
             /\ UNCHANGED cache
        ELSE /\ reqs' = [reqs EXCEPT ![r] = req]
             /\ UNCHANGED <<sem, cache>>
Continue(r, c) ==
    LET req == [reqs[r] EXCEPT !.pc = "upstream", !.call = c]
    IN  IF c.pc \in {"returned", "thrown"}
        THEN Finish(r, req)
        ELSE /\ reqs' = [reqs EXCEPT ![r] = req]
             /\ UNCHANGED <<sem, cache>>

\* await acquire() resumes with the release token; chatCompletion is called.
PermitGranted(r) ==
    /\ reqs[r].pc = "awaitPermit"
    /\ reqs[r].granted
    /\ Continue(r, ChatStart(retryConfig))
    /\ UNCHANGED <<limiter, now, retryConfig, observerVars>>

\* The pending fetch of r's call settles.
FetchSettles(r, o, jitter) ==
    /\ reqs[r].pc = "upstream"
    /\ reqs[r].call.pc = "fetch"
    /\ Continue(r, OnFetchSettled(reqs[r].call, retryConfig, o, jitter))
    /\ UNCHANGED <<limiter, now, retryConfig, observerVars>>

\* The pending sleep of r's call ends.
SleepDone(r) ==
    /\ reqs[r].pc = "upstream"
    /\ reqs[r].call.pc = "sleep"
    /\ Continue(r, OnSleepDone(reqs[r].call, retryConfig))
    /\ UNCHANGED <<limiter, now, retryConfig, observerVars>>

\* The invocation has returned its answer; a later request is served by a
\* fresh invocation.
Return(r) ==
    /\ reqs[r].pc = "done"
    /\ reqs' = [reqs EXCEPT ![r] = NewRequest]
    /\ UNCHANGED <<sem, limiter, now, retryConfig, cache, observerVars>>

\* Date.now() advances.
Tick(t) ==
    /\ t > now
    /\ now' = t
    /\ UNCHANGED <<sem, limiter, retryConfig, reqs, cache, observerVars>>

Next ==
    \/ \E r \in Requests, method \in Methods, origin \in Origins, xUserId \in UserHeaders :
          Arrive(r, method, origin, xUserId)
    \/ \E r \in Requests, body \in ProxyBodies, idempotencyKey \in IdempotencyKeys :
          BodyParsed(r, body, idempotencyKey)
    \/ \E r \in Requests, configOk \in BOOLEAN : ConfigResolved(r, configOk)
    \/ \E r \in Requests : PermitGranted(r)
    \/ \E r \in Requests, o \in ProxyOutcomes : FetchSettles(r, o, 0)
    \/ \E r \in Requests : SleepDone(r)
    \/ \E r \in Requests : Return(r)
    \/ \E t \in ProxyReadings : Tick(t)

Spec == Init /\ [][Next]_vars

\* ------------------------------------------------- SemSpec: Semaphore alone

SemInit ==
    /\ sem \in {SemaphoreNew(n) : n \in 0..MaxPermits}
    /\ clients = [c \in Clients |-> "idle"]
    /\ arrivals = <<>>
    /\ woken = {}
    /\ RateOff
    /\ ChatOff
    /\ ProxyOff

\* A caller invokes acquire(); it either gets its token or is queued.
Acquire(c) ==
    /\ clients[c] = "idle"
    /\ LET a == SemAcquire(sem, c)
       IN  /\ sem' = a.sem
           /\ clients' = [clients EXCEPT ![c] = IF a.granted THEN "holding" ELSE "queued"]
           /\ arrivals' = IF a.granted THEN arrivals ELSE Append(arrivals, c)
    /\ UNCHANGED woken
    /\ UNCHANGED <<rateVars, chatVars, proxyVars>>

\* A holder invokes its release token (once).
Release(c) ==
    /\ clients[c] = "holding"
    /\ LET r == SemRelease(sem)
       IN  /\ sem' = r.sem
           /\ clients' = [d \in Clients |->
                            IF d = c THEN "idle"
                            ELSE IF d = r.next THEN "holding"
                            ELSE clients[d]]
           /\ arrivals' = RemoveFrom(arrivals, r.next)
           /\ woken' = (woken \ {c}) \cup (IF r.next = Nobody THEN {} ELSE {r.next})
    /\ UNCHANGED <<rateVars, chatVars, proxyVars>>

SemNext == \E c \in Clients : Acquire(c) \/ Release(c)

SemSpec == SemInit /\ [][SemNext]_vars

\* Every holder eventually invokes its release token.
FairSemSpec == SemSpec /\ \A c \in Clients : WF_vars(Release(c))

\* ---------------------------------------------- RateSpec: RateLimiter alone
\* allow, cleanup and getStatus called in any order while Date.now() moves;
\* the wall clock may also be set back.

RateKeys == {"global", UserKey("alice")}
\* The readings Date.now() takes: fractions of a second apart, a second
\* apart, and past the 10 minute idle window.
ClockReadings == {0, 125, 250, 1000, BucketIdleMs + 250, BucketIdleMs + 1001}
RateConfigs == {<<DefaultGlobalRps, DefaultUserRps>>, <<3, 1>>}

RateInit ==
    /\ limiter \in {RateLimiterNew(c[1], c[2]) : c \in RateConfigs}
    /\ now = 0
    /\ gateLog = <<>>
    /\ twin = NoTwin
    /\ SemOff
    /\ ChatOff
    /\ ProxyOff

RlAllow(key, cost) ==
    /\ limiter' = Allow(limiter, key, cost, now).limiter
    /\ UNCHANGED <<now, gateLog, twin>>
    /\ UNCHANGED <<semVars, chatVars, proxyVars>>

RlCleanup ==
    /\ limiter' = Cleanup(limiter, now)
    /\ UNCHANGED <<now, gateLog, twin>>
    /\ UNCHANGED <<semVars, chatVars, proxyVars>>

RlGetStatus ==
    /\ limiter' = GetStatus(limiter, now).limiter
    /\ UNCHANGED <<now, gateLog, twin>>
    /\ UNCHANGED <<semVars, chatVars, proxyVars>>

ClockForward(t) ==
    /\ t > now
    /\ now' = t
    /\ UNCHANGED <<limiter, gateLog, twin>>
    /\ UNCHANGED <<semVars, chatVars, proxyVars>>

ClockBack(t) ==
    /\ t < now
    /\ now' = t
    /\ UNCHANGED <<limiter, gateLog, twin>>
    /\ UNCHANGED <<semVars, chatVars, proxyVars>>

RateNext ==
    \/ \E key \in RateKeys, cost \in 1..MaxCost : RlAllow(key, cost)
    \/ RlCleanup
    \/ RlGetStatus
    \/ \E t \in ClockReadings : ClockForward(t) \/ ClockBack(t)

RateSpec == RateInit /\ [][RateNext]_vars

\* ------------------------------- BurstSpec: the proxy's rate-limit checks
\* Requests reach openaiProxy's rate limiting checks one after another while
\* Date.now() advances (it never goes back here).

BurstUsers == {"alice", "bob"}
BurstReadings == {0, 125, 500, 1000}

BurstInit ==
    /\ limiter = RateLimiterNew(DefaultGlobalRps, DefaultUserRps)
    /\ now = 0
    /\ gateLog = <<>>
    /\ twin = NoTwin
    /\ SemOff
    /\ ChatOff
    /\ ProxyOff

\* One request runs the two checks; the observer logs when it came and how
\* it was answered (status 0: it went on to the body).
BurstRequest(userId) ==
    /\ Len(gateLog) < MaxBurst
    /\ LET c == RateLimitChecks(limiter, userId, now)
       IN  /\ limiter' = c.limiter
           /\ gateLog' = Append(gateLog, [t |-> now, globalOk |-> c.globalOk, userOk |-> c.userOk,
                                          status |-> c.status, retryAfter |-> c.retryAfter])
    /\ UNCHANGED <<now, twin>>
    /\ UNCHANGED <<semVars, chatVars, proxyVars>>

BurstTick(t) ==
    /\ t > now
    /\ now' = t
    /\ UNCHANGED <<limiter, gateLog, twin>>
    /\ UNCHANGED <<semVars, chatVars, proxyVars>>

BurstNext ==
    \/ \E userId \in BurstUsers : BurstRequest(userId)
    \/ \E t \in BurstReadings : BurstTick(t)

BurstSpec == BurstInit /\ [][BurstNext]_vars

\* ------------------------------------------- ChatSpec: one chatCompletion
\* One call of chatCompletion against an upstream that answers each fetch in
\* any of the ways below.

ChatRetries == 0..DefaultMaxRetries

\* Retry-After header texts: absent, "0", "1", "20", "soon", "2x", "-1".
RetryAfterHeaders ==
    {<<>>, <<"0">>, <<"1">>, <<"2", "0">>, <<"s", "o", "o", "n">>, <<"2", "x">>, <<"-", "1">>}

ErrorStatuses == {400, 401, 403, 404, 429, 500, 503}

\* What one fetch can come to: a rejected fetch, a 200 whose body parses or
\* does not, an error status with or without Retry-After.
UpstreamOutcomes ==
    {NetworkFailure}
    \cup {[kind |-> "http", status |-> 200, retryAfterHeader |-> <<>>, bodyOk |-> b, text |-> "json"] :
            b \in BOOLEAN}
    \cup {[kind |-> "http", status |-> st, retryAfterHeader |-> h, bodyOk |-> TRUE, text |-> "other"] :
            st \in ErrorStatuses, h \in RetryAfterHeaders}

Jitters == {0, JitterSpan - 1}

ChatInit ==
    /\ retryConfig \in {RetryConfigOf(n) : n \in ChatRetries}
    /\ call = ChatStart(retryConfig)
    /\ upstream = NoUpstream
    /\ SemOff
    /\ RateOff
    /\ ProxyOff

\* The pending fetch settles and the loop body runs to its next await.
ChatFetchSettles(o, jitter) ==
    /\ call.pc = "fetch"
    /\ call' = OnFetchSettled(call, retryConfig, o, jitter)
    /\ UNCHANGED <<retryConfig, upstream, semVars, rateVars, proxyVars>>

\* The pending sleep ends and the next attempt is issued.
ChatSleepDone ==
    /\ call.pc = "sleep"
    /\ call' = OnSleepDone(call, retryConfig)
    /\ UNCHANGED <<retryConfig, upstream, semVars, rateVars, proxyVars>>

ChatNext ==
    \/ \E o \in UpstreamOutcomes, jitter \in Jitters : ChatFetchSettles(o, jitter)
    \/ ChatSleepDone

ChatSpec == ChatInit /\ [][ChatNext]_vars

\* Every HTTP call and every sleep completes.
FairChatSpec == ChatSpec /\ WF_vars(ChatNext)

ChatTerminated == call.pc \in {"returned", "thrown"}

\* ------------------------------- ScriptSpec: chatCompletion against a script
\* One call of chatCompletion against a provider that answers the i-th fetch
\* with the i-th response of a script fixed in advance, on a clock: a fetch
\* takes some time and a sleep lasts at least the time asked for.

OkResponse(text) ==
    [kind |-> "http", status |-> 200, retryAfterHeader |-> <<>>, bodyOk |-> TRUE, text |-> text]
ErrorStatus(status, header) ==
    [kind |-> "http", status |-> status, retryAfterHeader |-> header, bodyOk |-> TRUE,
     text |-> "other"]

\* 200 with payload a or b, 200 with a body that is no JSON, 429 with
\* Retry-After: 1 and without, 500, a rejected fetch.
ScriptOutcomes ==
    {OkResponse("a"), OkResponse("b"),
     [kind |-> "http", status |-> 200, retryAfterHeader |-> <<>>, bodyOk |-> FALSE, text |-> "json"],
     ErrorStatus(429, <<"1">>), ErrorStatus(429, <<>>), ErrorStatus(500, <<>>),
     NetworkFailure}

Scripts == [1..MaxScript -> ScriptOutcomes]

\* How long a fetch takes, and how late a timer fires, in ms.
Latencies == {0, 40}
TimerLags == {0, 5}

ScriptInit ==
    /\ retryConfig \in {RetryConfigOf(n) : n \in 1..MaxScript}
    /\ call = ChatStart(retryConfig)
    /\ upstream \in {[script |-> sc, issuedAt |-> <<0>>, settledAt |-> <<>>] : sc \in Scripts}
    /\ SemOff
    /\ RateOff
    /\ ProxyOff

\* The pending fetch settles with the script's next response.
ScriptFetchSettles(latency, jitter) ==
    /\ call.pc = "fetch"
    /\ now' = now + latency
    /\ call' = OnFetchSettled(call, retryConfig, upstream.script[call.issued], jitter)
    /\ upstream' = [upstream EXCEPT !.settledAt = Append(@, now')]
    /\ UNCHANGED <<retryConfig, limiter, gateLog, twin, semVars, proxyVars>>

\* setTimeout(resolve, ms) fires, ms or more after it was set; the next
\* fetch is issued.
ScriptSleepDone(lag) ==
    /\ call.pc = "sleep"
    /\ now' = now + Max(call.waitMs, 0) + lag
    /\ call' = OnSleepDone(call, retryConfig)
    /\ upstream' = IF call'.pc = "fetch"
                   THEN [upstream EXCEPT !.issuedAt = Append(@, now')]
                   ELSE upstream
    /\ UNCHANGED <<retryConfig, limiter, gateLog, twin, semVars, proxyVars>>

ScriptNext ==
    \/ \E latency \in Latencies, jitter \in Jitters : ScriptFetchSettles(latency, jitter)
    \/ \E lag \in TimerLags : ScriptSleepDone(lag)

ScriptSpec == ScriptInit /\ [][ScriptNext]_vars

\* The position of the script's first 2xx response, 0 if it has none.
FirstOk(sc) ==
    IF \E i \in 1..Len(sc) : sc[i].kind = "http" /\ sc[i].status \in 200..299
    THEN CHOOSE i \in 1..Len(sc) :
            /\ sc[i].kind = "http" /\ sc[i].status \in 200..299
            /\ \A j \in 1..(i - 1) : ~(sc[j].kind = "http" /\ sc[j].status \in 200..299)
    ELSE 0

\* The responses before position k are all 429 or 5xx.
RetryableBefore(sc, k) ==
    \A i \in 1..(k - 1) :
        sc[i].kind = "http" /\ (sc[i].status = 429 \/ sc[i].status \in 500..599)

\* Every attempt that followed a 429 with Retry-After: s was issued s
\* seconds or more after that response arrived.
RetryAfterHonoured ==
    \A i \in 1..(Len(upstream.issuedAt) - 1) :
        LET o == upstream.script[i]
            s == RetryAfterOf(o.retryAfterHeader)
        IN  (o.kind = "http" /\ o.status = 429 /\ s.kind = "number" /\ s.value >= 0)
                => upstream.issuedAt[i + 1] - upstream.settledAt[i] >= s.value * 1000

\* The times at which requests passed the global check, in order.
PassTimes ==
    LET passed == SelectSeq(gateLog, LAMBDA e : e.globalOk)
    IN  [i \in 1..Len(passed) |-> passed[i].t]

Holders == {c \in Clients : clients[c] = "holding"}

\* The invocations that hold a permit: acquired and not yet released.
PermitHolders == {r \in Requests : reqs[r].acquires > reqs[r].releases}
\* The invocations that were turned away by a rate-limit check.
Throttled == {r \in Requests : reqs[r].gated /\ ~(reqs[r].globalOk /\ reqs[r].userOk)}
Queued == {c \in Clients : clients[c] = "queued"}

\* ------------------------------ LimiterSpec: allow and cleanup on a clock
\* allow and cleanup are called in any order while Date.now() advances.  The
\* same allow calls are made on a reference limiter on which cleanup is never
\* run, and the latest allow call is recorded: its key and cost, whether the
\* key had a bucket, the bucket's tokens and the time since its last refill
\* (both as they were before the call), and the two results.

LimiterReadings ==
    {0, 250, 500, 1000, 1500, BucketIdleMs + 1000, BucketIdleMs + 1001, BucketIdleMs + 1250,
     2 * BucketIdleMs + 1500}

\* What the observer records of allow(key, cost) at time t on rl, next to the
\* result ok and the reference limiter's result twinOk.
AllowRecord(rl, key, cost, t, ok, twinOk) ==
    LET fresh == key \notin DOMAIN rl.buckets
        b == GetBucket(rl, key, t).buckets[key]
    IN  [key |-> key, cost |-> cost, t |-> t, fresh |-> fresh,
         beforeMilli |-> b.tokensMilli, rested |-> t - b.lastRefill,
         ok |-> ok, twinOk |-> twinOk]

LimiterInit ==
    /\ limiter \in {RateLimiterNew(c[1], c[2]) : c \in RateConfigs}
    /\ twin = [limiter |-> limiter, last |-> <<>>]
    /\ now = 0
    /\ gateLog = <<>>
    /\ SemOff
    /\ ChatOff
    /\ ProxyOff

LsAllow(key, cost) ==
    /\ LET a == Allow(limiter, key, cost, now)
           ref == Allow(twin.limiter, key, cost, now)
       IN  /\ limiter' = a.limiter
           /\ twin' = [limiter |-> ref.limiter,
                       last |-> <<AllowRecord(limiter, key, cost, now, a.ok, ref.ok)>>]
    /\ UNCHANGED <<now, gateLog>>
    /\ UNCHANGED <<semVars, chatVars, proxyVars>>

\* The setInterval callback.
LsCleanup ==
    /\ limiter' = Cleanup(limiter, now)
    /\ limiter' # limiter
    /\ UNCHANGED <<now, gateLog, twin>>
    /\ UNCHANGED <<semVars, chatVars, proxyVars>>

LsTick(t) ==
    /\ t > now
    /\ now' = t
    /\ UNCHANGED <<limiter, gateLog, twin>>
    /\ UNCHANGED <<semVars, chatVars, proxyVars>>

LimiterNext ==
    \/ \E key \in RateKeys, cost \in 1..MaxCost : LsAllow(key, cost)
    \/ LsCleanup
    \/ \E t \in LimiterReadings : LsTick(t)

LimiterSpec == LimiterInit /\ [][LimiterNext]_vars

\* The latest allow call, once there is one.
Called == twin.last # <<>>
LastAllow == twin.last[1]

\* ---------------------- StatusSpec: the diagnostics snapshot beside allow
\* The limiter serves allow calls and cleanup sweeps and is read by the
\* diagnostics function; the reference limiter gets the same allow calls and
\* sweeps at the same times and is never read by diagnostics.

StatusReadings == {0, 500, 1000, BucketIdleMs + 1000, BucketIdleMs + 1001}

\* The setInterval callback, in both runs.
StCleanup ==
    /\ limiter' = Cleanup(limiter, now)
    /\ twin' = [twin EXCEPT !.limiter = Cleanup(@, now)]
    /\ limiter' # limiter \/ twin' # twin
    /\ UNCHANGED <<now, gateLog>>
    /\ UNCHANGED <<semVars, chatVars, proxyVars>>

\* diagnostics: globalRateLimiter.getStatus() and openaiSemaphore.getStatus().
StGetStatus ==
    /\ LET rateLimit == GetStatus(limiter, now)
           concurrency == SemGetStatus(sem)
       IN  /\ limiter' = rateLimit.limiter
           /\ limiter' # limiter
    /\ UNCHANGED <<now, gateLog, twin>>
    /\ UNCHANGED <<semVars, chatVars, proxyVars>>

StatusNext ==
    \/ \E key \in RateKeys, cost \in 1..MaxCost : LsAllow(key, cost)
    \/ StCleanup
    \/ StGetStatus
    \/ \E t \in StatusReadings : LsTick(t)

StatusSpec == LimiterInit /\ [][StatusNext]_vars

\* ------------------------ TokenSpec: release tokens invoked more than once
\* As SemSpec, but a holder may keep its token after invoking it and invoke
\* it a second time; such a caller does not call acquire again.

\* A holder invokes its release token and keeps it.
ReleaseKeep(c) ==
    /\ clients[c] = "holding"
    /\ LET r == SemRelease(sem)
       IN  /\ sem' = r.sem
           /\ clients' = [d \in Clients |->
                            IF d = c THEN "spent"
                            ELSE IF d = r.next THEN "holding"
                            ELSE clients[d]]
           /\ arrivals' = RemoveFrom(arrivals, r.next)
           /\ woken' = (woken \ {c}) \cup (IF r.next = Nobody THEN {} ELSE {r.next})
    /\ UNCHANGED <<rateVars, chatVars, proxyVars>>

\* The same token is invoked again.
ReleaseAgain(c) ==
    /\ clients[c] = "spent"
    /\ LET r == SemRelease(sem)
       IN  /\ sem' = r.sem
           /\ clients' = [d \in Clients |->
                            IF d = c THEN "reused"
                            ELSE IF d = r.next THEN "holding"
                            ELSE clients[d]]
           /\ arrivals' = RemoveFrom(arrivals, r.next)
           /\ woken' = woken \cup (IF r.next = Nobody THEN {} ELSE {r.next})
    /\ UNCHANGED <<rateVars, chatVars, proxyVars>>

TokenNext == \E c \in Clients : Acquire(c) \/ Release(c) \/ ReleaseKeep(c) \/ ReleaseAgain(c)

TokenSpec == SemInit /\ [][TokenNext]_vars

\* Callers that invoked their token twice.
Reused == {c \in Clients : clients[c] = "reused"}

\* ----------------------------- SweepSpec: the idempotency cache when full
\* The process has been up for a while: the cache holds CacheSweepSize - 1 or
\* CacheSweepSize entries, a few stored at time 0 and the rest at time 1.
\* One invocation at a time comes to the end of its try block, its call
\* returned or thrown, with or without an Idempotency-Key.

SweepKey(i) == "k" \o ToString(i)
SweepKeys == {"", SweepKey(1), "new-1", "new-2"}
SweepReadings == {0, CacheRetentionMs, CacheRetentionMs + 1, CacheRetentionMs + 2}

\* The cache of n entries of which the first old were stored at time 0.
SweepCache(n, old) ==
    [k \in {SweepKey(i) : i \in 1..n} |->
        [response |-> Success("json", "upstream"),
         timestamp |-> IF k \in {SweepKey(i) : i \in 1..old} THEN 0 ELSE 1]]

\* chatCompletion calls that have ended: returned after a 200, thrown after
\* a 400.
SweepCalls ==
    {OnFetchSettled(ChatStart(RetryConfigOf(DefaultMaxRetries)), RetryConfigOf(DefaultMaxRetries), o, 0) :
        o \in {x \in ProxyOutcomes : x.kind = "http" /\ x.status \in {200, 400} /\ x.text \in {"json", "long"}}}

SweepInit ==
    /\ sem = SemaphoreNew(ProxyPermits)
    /\ SemObserversOff
    /\ RateOff
    /\ ChatOff
    /\ reqs = [r \in Requests |-> NewRequest]
    /\ cache \in {SweepCache(n, old) : n \in {CacheSweepSize - 1, CacheSweepSize}, old \in 0..MaxSweepOld}
    /\ validator = NoValidation

\* Invocation 1 holds the permit and its call has ended.
SwCallEnds(key, c) ==
    /\ reqs[1].pc = "idle"
    /\ sem' = SemAcquire(sem, 1).sem
    /\ reqs' = [reqs EXCEPT ![1] = [NewRequest EXCEPT !.pc = "upstream", !.idempotencyKey = key,
                                                      !.granted = TRUE, !.acquires = 1, !.call = c]]
    /\ UNCHANGED <<limiter, now, retryConfig, cache, observerVars>>

\* It leaves the try block.
SwFinish ==
    /\ reqs[1].pc = "upstream"
    /\ Finish(1, reqs[1])
    /\ UNCHANGED <<limiter, now, retryConfig, observerVars>>

SweepNext ==
    \/ \E key \in SweepKeys, c \in SweepCalls : SwCallEnds(key, c)
    \/ SwFinish
    \/ Return(1)
    \/ \E t \in SweepReadings : Tick(t)

SweepSpec == SweepInit /\ [][SweepNext]_vars

\* ------------------------------------- ValidSpec: RequestValidator.validate
\* One call of validate on a request body drawn from the bodies below.

\* A text of n characters.
Text(n) == [i \in 1..n |-> "x"]
Message(role, content) == [role |-> role, content |-> content]
\* An array of n one-character user messages.
Messages(n) == Arr([i \in 1..n |-> Message("user", Text(1))])

DrawnCounts == {0, 1} \cup (MaxMessages..MaxDrawMessages)
DrawnLengths == {0, 1} \cup (MaxMessageLength..MaxDrawContent)

\* messages: absent, null, a text, arrays of 0, 1, 50 and more messages,
\* single messages of every role and length drawn, a padded content, and a
\* full array whose last message has no valid role.
DrawnMessages ==
    {Undefined, Null, Str(<<"h", "i">>)}
    \cup {Messages(n) : n \in DrawnCounts}
    \cup {Arr(<<Message(role, Text(n))>>) :
            role \in Roles \cup {"tool", ""}, n \in DrawnLengths}
    \cup {Arr(<<Message("user", <<" ", "h", "i", " ">>)>>),
          Arr(Messages(MaxMessages - 1).items \o <<Message("tool", Text(1))>>)}

DrawnStops ==
    {Undefined, Null, Num(1), Str(<<>>), Str(<<"a">>),
     Arr(<<Str(<<"a">>), Str(<<>>), Num(1)>>)}
    \cup {Arr([i \in 1..n |-> Str(<<"a">>)]) : n \in {0, 1} \cup (MaxStopSequences..MaxDrawStop)}

DrawnStreams == {Undefined, Bool(TRUE), Bool(FALSE), Str(<<"t", "r", "u", "e">>)}

\* Bodies that vary the messages, and bodies that vary everything else.
DrawnBodies ==
    {RequestBody(m, Undefined, Undefined, Undefined, Undefined, Undefined, Undefined, st) :
        m \in DrawnMessages, st \in DrawnStreams}
    \cup {RequestBody(m, mt, t, tp, fp, pp, stop, st) :
            m \in {Messages(1), Messages(MaxDrawMessages)},
            mt \in {Undefined, Num(0), Num(1), Num(MaxTokens), Num(MaxTokens + 1), Str(<<"a">>)},
            t \in {Undefined, Num(-1), Num(2), Null},
            tp \in {Undefined, Num(1), Num(2)},
            fp \in {Undefined, Num(-2), Num(-3)},
            pp \in {Undefined, Num(2), Num(3)},
            stop \in DrawnStops,
            st \in DrawnStreams \ {Undefined}}

ValidInit ==
    /\ validator \in {[pc |-> "called", requestBody |-> b, result |-> <<>>] : b \in DrawnBodies}
    /\ reqs = [r \in Requests |-> NewRequest]
    /\ cache = <<>>
    /\ SemOff
    /\ RateOff
    /\ ChatOff

\* validate runs to its return.
ValidateReturns ==
    /\ validator.pc = "called"
    /\ validator' = [validator EXCEPT !.pc = "returned",
                                      !.result = Validate(validator.requestBody)]
    /\ UNCHANGED <<reqs, cache, semVars, rateVars, chatVars>>

ValidNext == ValidateReturns

ValidSpec == ValidInit /\ [][ValidNext]_vars

\* The call has returned on the body it was given.
Validated == validator.pc = "returned"

\* ------------------------------------------------------------------ claims

\* C1: permits stays within 0..maxPermits and permits plus the number of
\* granted-but-not-yet-released permits equals maxPermits, so at most
\* maxPermits permits are held at once.
C1_PermitConservation ==
    /\ sem.permits \in 0..sem.maxPermits
    /\ sem.permits + Cardinality(Holders) = sem.maxPermits
    /\ Cardinality(Holders) <= sem.maxPermits

\* C1 witness: every permit is out, one of them handed over by a release,
\* and a caller is still queued.
C1_Witness ==
    /\ sem.maxPermits = 2
    /\ Cardinality(Holders) = 2
    /\ woken # {}
    /\ Len(sem.waitQueue) > 0

\* C2: an invocation of openaiProxy that obtained a permit releases it exactly
\* once however its upstream call ends (success, fatal error, retries
\* exhausted, network exception): it holds the permit until the call has
\* ended, has released it once when it answers, and never releases without
\* having acquired; when no invocation is in flight the permit count is back
\* at its initial value.
C2_ReleaseOncePerAcquire ==
    /\ \A r \in Requests :
          /\ reqs[r].releases <= reqs[r].acquires
          /\ reqs[r].acquires <= 1
          /\ reqs[r].pc = "upstream" => reqs[r].acquires = 1 /\ reqs[r].releases = 0
          /\ reqs[r].pc = "done" => reqs[r].releases = reqs[r].acquires
          /\ (reqs[r].pc = "done" /\ reqs[r].call.exit # "none") => reqs[r].releases = 1
    /\ sem.permits + Cardinality(PermitHolders) = sem.maxPermits
    /\ (\A r \in Requests : reqs[r].pc \in {"idle", "done"}) => sem.permits = sem.maxPermits

\* C2 witness: after an earlier invocation succeeded (its answer is cached),
\* one invocation has answered a fatal upstream error and another a network
\* exception on the last attempt, each having released once, and every
\* permit is back.
C2_Witness ==
    /\ cache # <<>>
    /\ \E r, q \in Requests :
          /\ reqs[r].pc = "done" /\ reqs[r].call.exit = "fatal" /\ reqs[r].releases = 1
          /\ reqs[q].pc = "done" /\ reqs[q].call.exit = "exhausted"
          /\ ~reqs[q].call.error.hasStatus /\ reqs[q].releases = 1
    /\ sem.permits = sem.maxPermits

\* C3: waiters are granted strictly in the order they were enqueued: the
\* waiter a release wakes is always the one that called acquire earliest
\* among those still queued.
C3_FifoGrant ==
    [][\A c \in Clients :
          (clients[c] = "queued" /\ clients'[c] = "holding") => c = Head(arrivals)]_vars

\* C3 witness: a waiter has been woken while a later arrival is still queued.
C3_Witness ==
    /\ woken # {}
    /\ Len(arrivals) >= 2

\* C4: a release with a non-empty queue hands the permit to the head waiter
\* in the same step, so whenever a caller is queued no permit is available
\* and a later acquire cannot overtake it.
C4_QueueImpliesNoPermit ==
    (Len(sem.waitQueue) > 0 \/ Queued # {}) => sem.permits = 0

\* C4 witness: a release has just handed its permit over and callers are
\* still queued behind the woken one.
C4_Witness ==
    /\ sem.maxPermits >= 1
    /\ woken # {}
    /\ Len(sem.waitQueue) >= 1
    /\ sem.permits = 0

\* C5: with maxPermits >= 1 and every holder eventually releasing, every
\* queued acquire is eventually granted whatever arrives later; an acquire
\* that cannot be served is kept in the queue (exactly once), never refused.
C5_NoStarvation ==
    /\ \A c \in Clients :
          (clients[c] = "queued" /\ sem.maxPermits >= 1) ~> (clients[c] = "holding")
    /\ [](\A c \in Clients :
            clients[c] = "queued" =>
              Cardinality({i \in 1..Len(sem.waitQueue) : sem.waitQueue[i] = c}) = 1)

\* C5 witness: a waiter was served while two later callers were queued.
C5_Witness ==
    /\ sem.maxPermits >= 1
    /\ woken # {}
    /\ Len(sem.waitQueue) >= 2

\* C6: after every allow(key, cost), at any timestamps, every bucket holds
\* between 0 and capacity tokens.
C6_TokensWithinBounds ==
    \A k \in DOMAIN limiter.buckets :
        /\ 0 <= limiter.buckets[k].tokensMilli
        /\ limiter.buckets[k].tokensMilli <= limiter.buckets[k].capacity * TokenScale

\* C6 witness: a bucket was drained below one token, then partly refilled
\* (a fractional token count), and another bucket is full after a refill.
C6_Witness ==
    \E k \in DOMAIN limiter.buckets :
        /\ limiter.buckets[k].tokensMilli % TokenScale # 0
        /\ limiter.buckets[k].tokensMilli < TokenScale
        /\ limiter.buckets[k].lastRefill > 0

\* C7 (as claimed): a request that arrives less than one second after the
\* first of 8 requests that passed the global check is answered 429 with
\* Retry-After: 2, so no more than 8 requests pass within one second.
C7_AtMostEightPerSecond ==
    \A i, j \in 1..Len(PassTimes) :
        (j - i >= limiter.globalRps) => PassTimes[j] - PassTimes[i] >= 1000

\* C7 (amended): the 9th request at the same clock reading as 8 admitted
\* ones is answered 429 with Retry-After: 2; over a span of d ms at most
\* 8 + 8 * d / 1000 requests pass the global check (the full bucket plus
\* what refills meanwhile), which is up to 15 within one second.
C7_BurstBound ==
    /\ \A i, j \in 1..Len(PassTimes) :
          (i <= j) =>
             (j - i + 1) * TokenScale
                <= limiter.globalRps * TokenScale
                     + limiter.globalRps * (PassTimes[j] - PassTimes[i])
    /\ \A k \in 1..Len(gateLog) :
          ~gateLog[k].globalOk => (gateLog[k].status = 429 /\ gateLog[k].retryAfter = 2)

\* C7 witness: 8 requests passed at one reading, the 9th at that reading was
\* answered 429, and a later one passed within the same second.
C7_Witness ==
    /\ Len(PassTimes) >= 9
    /\ PassTimes[8] = PassTimes[1]
    /\ PassTimes[9] - PassTimes[1] < 1000
    /\ \E k \in 1..Len(gateLog) :
          /\ ~gateLog[k].globalOk
          /\ gateLog[k].t = PassTimes[1]
          /\ gateLog[k].status = 429

\* C8: a request gets past rate limiting (to the reading of its body and
\* beyond) only if allow('global', 1) and allow('user:<id>', 1) both returned
\* true; a request for which either returned false is answered 429 with
\* Retry-After: 2 and an error envelope (success false, an error message),
\* without its body having been read, and without a permit, an upstream call
\* or a retry.
C8_ThrottledBeforeBody ==
    \A r \in Requests :
        /\ (reqs[r].bodyRead \/ reqs[r].pc \in {"awaitBody", "awaitConfig", "awaitPermit", "upstream"})
              => reqs[r].gated /\ reqs[r].globalOk /\ reqs[r].userChecked /\ reqs[r].userOk
        /\ r \in Throttled =>
              /\ reqs[r].pc = "done"
              /\ reqs[r].response.status = 429
              /\ reqs[r].response.retryAfter = RetryAfterThrottled
              /\ ~reqs[r].response.success
              /\ reqs[r].response.error # ""
              /\ ~reqs[r].bodyRead
              /\ reqs[r].acquires = 0
              /\ reqs[r].call = NoCall

\* C8 witness: one request has been turned away by the user check after
\* passing the global one, another by the global check.
C8_Witness ==
    \E r, q \in Requests :
        /\ r \in Throttled /\ reqs[r].globalOk /\ reqs[r].userChecked /\ ~reqs[r].userOk
        /\ q \in Throttled /\ ~reqs[q].globalOk /\ ~reqs[q].userChecked
        /\ reqs[r].response.status = 429 /\ reqs[q].response.status = 429

C12_WaitByAttempt ==
    (call.pc = "sleep" /\ call.sleepKind = "backoff") =>
        LET s == call.lastError.retryAfter
            backoff == Min(retryConfig.baseDelayMs * 2^(call.attempt - 1), retryConfig.maxDelayMs)
        IN  IF s.kind = "number" /\ s.value >= 0
            THEN call.waitMs = s.value * 1000
            ELSE call.waitMs - backoff \in 0..(JitterSpan - 1)

\* C13 as stated: an invocation whose chatCompletion call failed after all
\* maxRetries attempts met a retryable condition (429, 5xx or a network error
\* without status) got the last attempt's error and is answered 429 with
\* Retry-After: 5.
C13_ExhaustedAnswered429 ==
    \A r \in Requests :
        LET c == reqs[r].call
        IN  (reqs[r].pc = "done" /\ c.pc = "thrown" /\ c.allRetryable
               /\ c.issued = retryConfig.maxRetries) =>
                /\ IF c.lastStatus = 0
                   THEN ~c.error.hasStatus
                   ELSE c.error.hasStatus /\ c.error.status = c.lastStatus
                /\ reqs[r].response.status = 429
                /\ reqs[r].response.retryAfter = RetryAfterUpstream

\* C14: an invocation whose upstream call failed with a 4xx other than 429
\* is answered 502 with a detail of at most 300 characters, unless the status
\* is 400 and the message contains the content-policy marker, which is
\* answered 400 with errorType content_filter; a failure without upstream
\* status is answered 500, and every 500 says 'Internal server error' with
\* no detail and no errorType.
C14_UpstreamErrorMapping ==
    \A r \in Requests :
        LET e == reqs[r].call.error
            a == reqs[r].response
        IN  /\ (reqs[r].pc = "done" /\ reqs[r].call.pc = "thrown") =>
                  /\ (e.hasStatus /\ e.status \in 400..499 /\ e.status # 429) =>
                        IF e.status = 400 /\ e.text = "content management policy"
                        THEN a.status = 400 /\ a.errorType = "content_filter"
                        ELSE a.status = 502 /\ a.detailLen <= 300 /\ a.errorType = ""
                  /\ ~e.hasStatus => a.status = 500
            /\ (reqs[r].pc = "done" /\ a.status = 500) =>
                  a.error = "Internal server error" /\ a.detailLen = 0 /\ a.errorType = ""

\* C14 witness: one invocation has answered 502 with a detail cut to 300
\* characters, another a content-policy rejection with 400 content_filter.
C14_Witness ==
    \E r, q \in Requests :
        /\ reqs[r].pc = "done" /\ reqs[r].call.error.status = 400
        /\ reqs[r].call.error.len > 300
        /\ reqs[r].response.status = 502 /\ reqs[r].response.detailLen = 300
        /\ reqs[q].pc = "done" /\ reqs[q].call.error.text = "content management policy"
        /\ reqs[q].response.status = 400 /\ reqs[q].response.errorType = "content_filter"

\* C15: every answer with status 429, from the global check, the user check
\* or an upstream 429/5xx failure, carries a Retry-After header with a
\* number of seconds.
C15_Every429HasRetryAfter ==
    \A r \in Requests :
        (reqs[r].pc = "done" /\ reqs[r].response.status = 429) => reqs[r].response.retryAfter > 0

\* C15 witness: one invocation was answered 429 by a rate-limit check
\* (Retry-After: 2), another after its upstream call was exhausted on 5xx
\* (Retry-After: 5).
C15_Witness ==
    \E r, q \in Requests :
        /\ r \in Throttled /\ reqs[r].response.status = 429
        /\ reqs[r].response.retryAfter = RetryAfterThrottled
        /\ reqs[q].pc = "done" /\ reqs[q].call.exit = "exhausted"
        /\ reqs[q].call.lastStatus = 500
        /\ reqs[q].response.status = 429
        /\ reqs[q].response.retryAfter = RetryAfterUpstream

\* C16 as stated, for the upstream call: of the requests that carry the same
\* Idempotency-Key within 5 minutes only one calls the provider, so no
\* invocation has a fetch pending for a key whose answer is already cached
\* and live.
C16_OneUpstreamCallPerKey ==
    \A r \in Requests :
        ~ /\ reqs[r].pc = "upstream"
          /\ reqs[r].call.pc = "fetch"
          /\ CacheHit(cache, reqs[r].idempotencyKey, now)

\* C17: an answer is served from the cache only if it is the answer of an
\* entry less than 300000 ms old; an invocation that goes on towards the
\* upstream call with a key has found no entry of that age for it; and the
\* step that does the lookup leaves the cache as it is, stale entries
\* included.
C17_StaleEntryNotServed ==
    [][\A r \in Requests :
          (reqs[r].pc = "awaitBody" /\ reqs'[r].pc # "awaitBody") =>
              /\ cache' = cache
              /\ reqs'[r].response.from = "cache" =>
                    \E k \in DOMAIN cache :
                        /\ now - cache[k].timestamp < 300000
                        /\ reqs'[r].response.data = cache[k].response.data
              /\ (reqs'[r].pc = "awaitConfig" /\ reqs'[r].idempotencyKey \in DOMAIN cache) =>
                    now - cache[reqs'[r].idempotencyKey].timestamp >= 300000]_vars

\* C17 witness: an invocation whose lookup found an entry that was too old
\* has a fetch pending, and the entry is still in the map, 300000 ms old.
C17_Witness ==
    \E r \in Requests :
        /\ reqs[r].staleSeen
        /\ reqs[r].pc = "upstream" /\ reqs[r].call.pc = "fetch"
        /\ reqs[r].idempotencyKey \in DOMAIN cache
        /\ now - cache[reqs[r].idempotencyKey].timestamp = 300000

\* C18: a request answered from the idempotency cache gets the cached body
\* with status 200, has not been validated, has acquired no permit and made
\* no upstream call, and had passed both rate-limit checks; the step that
\* answers it leaves the limiter (no token refunded) and the semaphore as
\* they are.
C18_CacheHitBypasses ==
    /\ [](\A r \in Requests :
            (reqs[r].pc = "done" /\ reqs[r].response.from = "cache") =>
                /\ reqs[r].response.status = 200
                /\ reqs[r].response.success
                /\ ~reqs[r].validated
                /\ reqs[r].acquires = 0
                /\ reqs[r].call = NoCall
                /\ reqs[r].gated /\ reqs[r].globalOk /\ reqs[r].userOk)
    /\ [][\A r \in Requests :
            (reqs[r].pc = "awaitBody" /\ reqs'[r].response.from = "cache") =>
                /\ limiter' = limiter
                /\ sem' = sem
                /\ \E k \in DOMAIN cache :
                      reqs'[r].response = [cache[k].response EXCEPT !.from = "cache"]]_vars

\* C18 witness: an invocation has been answered from the cache; the global
\* bucket, drained by it and the request before it, is still empty, and no
\* permit is out.
C18_Witness ==
    \E r \in Requests :
        /\ reqs[r].pc = "done" /\ reqs[r].response.from = "cache"
        /\ reqs[r].response.status = 200
        /\ limiter.buckets["global"].tokensMilli = 0
        /\ sem.permits = sem.maxPermits

\* C19: a request answered 403 for its origin never reached the rate-limit
\* checks, the body, the cache lookup, the semaphore or the upstream call,
\* and the step that answers it leaves every bucket of the limiter, the
\* semaphore and the idempotency cache unchanged.
C19_OriginDeniedTouchesNothing ==
    /\ [](\A r \in Requests :
            (reqs[r].pc = "done" /\ reqs[r].response.status = 403) =>
                /\ ~IsOriginAllowed(reqs[r].origin)
                /\ ~reqs[r].gated
                /\ ~reqs[r].bodyRead
                /\ reqs[r].acquires = 0
                /\ reqs[r].call = NoCall)
    /\ [][\A r \in Requests :
            (reqs[r].pc = "idle" /\ reqs'[r].response.status = 403) =>
                limiter' = limiter /\ sem' = sem /\ cache' = cache]_vars

\* C19 witness: the first request ever is answered 403 for its origin: the
\* limiter has no bucket yet, every permit is free, the cache is empty.
C19_Witness ==
    \E r \in Requests :
        /\ reqs[r].pc = "done" /\ reqs[r].response.status = 403
        /\ reqs[r].origin = "https://evil.example"
        /\ DOMAIN limiter.buckets = {}
        /\ sem.permits = sem.maxPermits
        /\ cache = <<>>

\* C20 as stated: a POST whose Origin is not on the allow-list, an absent
\* Origin included, is answered 403, and only requests with an allow-listed
\* origin reach the rate-limit checks.
C20_UnlistedOriginRejected ==
    \A r \in Requests :
        /\ (reqs[r].method = "POST" /\ ~IsOriginAllowed(reqs[r].origin)) =>
              reqs[r].pc = "done" /\ reqs[r].response.status = 403
        /\ reqs[r].gated => IsOriginAllowed(reqs[r].origin)

\* C21 as stated: an invocation that answered 400 as a client error (body
\* required, deployment required, validation failure) took no token of the
\* global bucket, none of a user bucket, and no permit.
C21_ClientErrorConsumesNothing ==
    \A r \in Requests :
        (reqs[r].pc = "done" /\ reqs[r].response.status = 400
            /\ reqs[r].response.errorType = "") =>
                /\ ~reqs[r].globalOk
                /\ ~reqs[r].userOk
                /\ reqs[r].acquires = 0

\* C22 as stated: a request that passed the origin and rate-limit checks and
\* whose body is absent, unparseable or not an object is answered 400; one
\* whose body is an object without deployment is answered 400 'Deployment
\* name is required' without the validator having run; whatever its
\* Idempotency-Key header.
C22_BadBodyAnswered400 ==
    \A r \in Requests :
        (reqs[r].pc = "done" /\ reqs[r].bodyRead) =>
            /\ reqs[r].bodyKind \in {"unparseable", "null", "scalar"} =>
                  reqs[r].response.status = 400
            /\ (reqs[r].bodyKind = "object" /\ ~reqs[r].hasDeployment) =>
                  /\ reqs[r].response.status = 400
                  /\ reqs[r].response.error = "Deployment name is required"
                  /\ ~reqs[r].validated

\* C23: an invocation inside its chatCompletion call, sleeping between
\* attempts included, holds the permit it acquired and is not in the wait
\* queue; a step of its call that does not end the call leaves the semaphore
\* as it is; and while as many invocations are inside their calls as there
\* are permits, no permit is free and every invocation waiting for one is
\* ungranted and queued.
C23_PermitKeptAcrossRetries ==
    /\ [](\A r \in Requests :
            reqs[r].pc = "upstream" =>
                /\ r \in PermitHolders
                /\ \A i \in 1..Len(sem.waitQueue) : sem.waitQueue[i] # r)
    /\ [](Cardinality({r \in Requests : reqs[r].pc = "upstream"}) = sem.maxPermits =>
            /\ sem.permits = 0
            /\ \A q \in Requests :
                  reqs[q].pc = "awaitPermit" =>
                      /\ ~reqs[q].granted
                      /\ \E i \in 1..Len(sem.waitQueue) : sem.waitQueue[i] = q)
    /\ [][\A r \in Requests :
            (reqs[r].pc = "upstream" /\ reqs'[r].pc = "upstream"
                /\ reqs'[r].call # reqs[r].call) =>
                    /\ sem' = sem
                    /\ reqs'[r].acquires = reqs[r].acquires
                    /\ reqs'[r].releases = reqs[r].releases]_vars

\* C23 witness: one invocation sleeps before its last attempt, holding the
\* only permit, while a later one sits ungranted in the wait queue.
C23_Witness ==
    \E r, q \in Requests :
        /\ reqs[r].pc = "upstream" /\ reqs[r].call.pc = "sleep"
        /\ reqs[r].call.attempt = retryConfig.maxRetries - 1
        /\ r \in PermitHolders
        /\ reqs[q].pc = "awaitPermit" /\ ~reqs[q].granted
        /\ sem.waitQueue = <<q>>
        /\ sem.permits = 0

\* C24 as stated: the times a chatCompletion call asked to sleep between its
\* attempts sum to at most maxRetries * maxDelayMs.
C24_TotalWaitBounded ==
    call.waited <= retryConfig.maxRetries * retryConfig.maxDelayMs

\* C25: a fetch that fails without an HTTP status on attempt a < maxRetries
\* is followed by one sleep of at most 5000 ms and then by attempt a + 1; on
\* attempt a = maxRetries the call throws that failure without sleeping; the
\* attempts are counted alike whatever they came to, never more than
\* maxRetries of them.
C25_NetworkFailureRetried ==
    /\ [](/\ call.issued <= retryConfig.maxRetries
          /\ call.pc \in {"fetch", "sleep"} => call.issued = call.attempt
          /\ (call.pc = "sleep" /\ call.sleepKind = "network") =>
                /\ call.waitMs <= NetworkDelayCapMs
                /\ call.attempt < retryConfig.maxRetries
                /\ ~call.lastError.hasStatus)
    /\ [][(call.pc = "fetch" /\ call' # call /\ call'.lastStatus = 0) =>
            IF call.attempt < retryConfig.maxRetries
            THEN /\ call'.pc = "sleep" /\ call'.sleepKind = "network"
                 /\ call'.sleeps = call.sleeps + 1
                 /\ call'.waited - call.waited \in 0..NetworkDelayCapMs
            ELSE /\ call'.pc = "thrown" /\ call'.exit = "exhausted"
                 /\ ~call'.error.hasStatus
                 /\ call'.sleeps = call.sleeps
                 /\ call'.waited = call.waited]_vars
    /\ [][(call.pc = "sleep" /\ call' # call) =>
            /\ call'.pc = "fetch"
            /\ call'.attempt = call.attempt + 1
            /\ call'.issued = call.issued + 1]_vars

\* C25 witness: the fifth attempt in a row failed on the network: delay has
\* doubled to 8000 ms and the call sleeps the capped 5000 ms.
C25_Witness ==
    /\ call.pc = "sleep" /\ call.sleepKind = "network"
    /\ call.attempt = 5
    /\ call.delay > NetworkDelayCapMs
    /\ call.waitMs = NetworkDelayCapMs

\* C26 as stated, for OpenAIService: no field of a log entry written by
\* chatCompletion carries the API key, message content or text of the
\* provider's response body.
C26_LogsCarryNoContent ==
    \A entry \in ChatLogged(call) :
        \A k \in DOMAIN entry : entry[k] \notin {"apiKey", "messageContent", "upstreamBody"}

\* C27: validate rejects a body whose messages array has more than
\* MAX_MESSAGES entries, whatever else it holds; it rejects a body whose
\* messages field is absent, not an array, or an empty array; and it accepts
\* a body of exactly MAX_MESSAGES valid messages and nothing else (but a
\* stream field that is not true), returning that many messages.
C27_MessageCountBoundary ==
    Validated =>
        LET b == validator.requestBody
            m == b.messages
            res == validator.result
        IN  /\ (m.kind = "array" /\ Len(m.items) > MaxMessages) => ~res.ok
            /\ (m.kind # "array" \/ Len(m.items) = 0) => ~res.ok
            /\ (m = Messages(MaxMessages) /\ b.max_tokens = Undefined /\ b.stream # Bool(TRUE)) =>
                  /\ res.ok
                  /\ Len(res.sanitizedRequest.messages) = MaxMessages

\* C27 witness: a body of exactly 50 messages was accepted.
C27_Witness ==
    /\ Validated
    /\ validator.requestBody.messages = Messages(MaxMessages)
    /\ validator.result.ok
    /\ Len(validator.result.sanitizedRequest.messages) = 50

\* C28: validate returns ok = false for every body whose stream field is
\* true, whatever its other fields hold, and the body it accepts never has
\* a stream key.
C28_StreamAlwaysRejected ==
    Validated =>
        /\ validator.requestBody.stream = Bool(TRUE) => ~validator.result.ok
        /\ validator.result.ok => "stream" \notin DOMAIN validator.result.sanitizedRequest

\* C28 witness: a body that is valid in every other field (one message,
\* max_tokens 4000, temperature 2, top_p 1, penalties -2 and 2, four stop
\* sequences) is rejected for stream: true alone.
C28_Witness ==
    /\ Validated
    /\ validator.requestBody =
          RequestBody(Messages(1), Num(MaxTokens), Num(2), Num(1), Num(-2), Num(2),
                      Arr([i \in 1..MaxStopSequences |-> Str(<<"a">>)]), Bool(TRUE))
    /\ ~validator.result.ok
    /\ validator.result.error = "Streaming is not supported through the proxy"

\* C29: a sanitizedRequest returned with ok = true has no key besides
\* messages, max_tokens, temperature, top_p, frequency_penalty,
\* presence_penalty and stop; it has 1..50 messages, each with one of the
\* three roles and a content of at most 4000 characters; each sampling
\* parameter it has is a number in its range; and it has an optional key
\* exactly if the body had that field.
C29_SanitizedWithinBounds ==
    (Validated /\ validator.result.ok) =>
        LET b == validator.requestBody
            sr == validator.result.sanitizedRequest
            lo == [max_tokens |-> 1, temperature |-> 0, top_p |-> 0,
                   frequency_penalty |-> -2, presence_penalty |-> -2]
            hi == [max_tokens |-> 4000, temperature |-> 2, top_p |-> 1,
                   frequency_penalty |-> 2, presence_penalty |-> 2]
        IN  /\ "messages" \in DOMAIN sr
            /\ DOMAIN sr \subseteq {"messages", "stop"} \cup DOMAIN lo
            /\ Len(sr.messages) \in 1..50
            /\ \A i \in 1..Len(sr.messages) :
                  /\ DOMAIN sr.messages[i] = {"role", "content"}
                  /\ sr.messages[i].role \in {"system", "user", "assistant"}
                  /\ Len(sr.messages[i].content) <= 4000
            /\ \A k \in DOMAIN lo \cap DOMAIN sr :
                  sr[k].kind = "number" /\ sr[k].value \in lo[k]..hi[k]
            /\ \A k \in DOMAIN lo \cup {"stop"} : k \in DOMAIN sr <=> b[k] # Undefined

\* C29 witness: a body with every parameter at an end of its range is
\* accepted with all seven keys; its stream: false is dropped.
C29_Witness ==
    /\ Validated
    /\ validator.requestBody =
          RequestBody(Messages(1), Num(MaxTokens), Num(2), Num(1), Num(-2), Num(2),
                      Arr([i \in 1..MaxStopSequences |-> Str(<<"a">>)]), Bool(FALSE))
    /\ validator.result.ok
    /\ Cardinality(DOMAIN validator.result.sanitizedRequest) = 7

\* C30 as stated: a body with a stop field is accepted only if stop is a
\* non-empty text or an array of at most 4 elements each a non-empty text;
\* with any other stop the result is ok = false and, the rest of the body
\* being valid, the error names stop.
C30_StopWellFormedOrRejected ==
    (Validated /\ validator.requestBody.stop # Undefined) =>
        LET b == validator.requestBody
            stop == b.stop
            res == validator.result
            wellFormed ==
                \/ stop.kind = "string" /\ Len(stop.chars) > 0
                \/ /\ stop.kind = "array"
                   /\ Len(stop.items) <= 4
                   /\ \A i \in 1..Len(stop.items) :
                         stop.items[i].kind = "string" /\ Len(stop.items[i].chars) > 0
        IN  /\ res.ok => wellFormed
            /\ (~wellFormed /\ Validate([b EXCEPT !.stop = Undefined]).ok) =>
                  res.error \in {"stop array cannot have more than 4 sequences",
                                 "stop must be a string or array of strings"}

\* C33: allow(key, cost) returns true exactly when the bucket's tokens after
\* the lazy refill (the tokens before, plus elapsed ms * refillRate / 1000,
\* capped at capacity) are at least cost; it leaves the bucket with those
\* tokens less cost if it returned true and with those tokens if it returned
\* false; a key without bucket starts from capacity tokens, globalRps for
\* 'global' and userRps for any other key; no other bucket changes.
C33_AllowDeductsExactly ==
    [][twin'.last # twin.last =>
        LET l == twin'.last[1]
            capacity == IF l.key = "global" THEN limiter.globalRps ELSE limiter.userRps
            refilled == IF l.rested > 0
                        THEN Min(capacity * 1000, l.beforeMilli + l.rested * capacity)
                        ELSE l.beforeMilli
        IN  /\ l.ok <=> refilled >= l.cost * 1000
            /\ limiter'.buckets[l.key].tokensMilli =
                  refilled - (IF l.ok THEN l.cost * 1000 ELSE 0)
            /\ limiter'.buckets[l.key].capacity = capacity
            /\ l.fresh <=> l.key \notin DOMAIN limiter.buckets
            /\ l.fresh => l.beforeMilli = capacity * 1000
            /\ ~l.fresh => l.beforeMilli = limiter.buckets[l.key].tokensMilli
            /\ \A k \in DOMAIN limiter.buckets \ {l.key} :
                  k \in DOMAIN limiter'.buckets /\ limiter'.buckets[k] = limiter.buckets[k]]_vars

\* C33 witness: an allow was refused on a bucket that a partial refill had
\* brought to a fraction of the cost, and nothing was deducted.
C33_Witness ==
    /\ Called
    /\ ~LastAllow.ok
    /\ LastAllow.rested > 0
    /\ LastAllow.beforeMilli + LastAllow.rested * limiter.buckets[LastAllow.key].capacity
          < LastAllow.cost * 1000
    /\ limiter.buckets[LastAllow.key].tokensMilli
          = LastAllow.beforeMilli + LastAllow.rested * limiter.buckets[LastAllow.key].capacity
    /\ limiter.buckets[LastAllow.key].tokensMilli > 0

\* C31: an allow(key, cost) on a bucket last refilled at least 1000 ms
\* earlier (capacity / refillRate seconds, refillRate being capacity),
\* whatever tokens it held, finds capacity tokens: for cost <= capacity it
\* returns true and leaves capacity - cost tokens.
C31_FullAfterOneSecond ==
    [][twin'.last # twin.last =>
        LET l == twin'.last[1]
            capacity == IF l.key = "global" THEN limiter.globalRps ELSE limiter.userRps
        IN  (l.rested >= 1000 /\ l.cost <= capacity) =>
                /\ l.ok
                /\ limiter'.buckets[l.key].tokensMilli = (capacity - l.cost) * 1000]_vars

\* C31 witness: a bucket that held no token was left alone for exactly one
\* second and then granted a cost equal to its capacity.
C31_Witness ==
    /\ Called
    /\ ~LastAllow.fresh
    /\ LastAllow.beforeMilli = 0
    /\ LastAllow.rested = 1000
    /\ LastAllow.ok
    /\ LastAllow.key \in DOMAIN limiter.buckets
    /\ LastAllow.cost = limiter.buckets[LastAllow.key].capacity
    /\ limiter.buckets[LastAllow.key].tokensMilli = 0

\* C37: with allow calls and cleanup sweeps at non-decreasing times, every
\* allow returns what the same call returns on a limiter that never evicts:
\* a bucket the limiter has is the reference limiter's bucket, and a bucket
\* only the reference limiter has was last refilled more than 10 minutes ago,
\* so its next refill fills it as a new bucket is filled.
C37_EvictionUnobservable ==
    /\ Called => LastAllow.ok = LastAllow.twinOk
    /\ \A k \in DOMAIN limiter.buckets :
          k \in DOMAIN twin.limiter.buckets /\ twin.limiter.buckets[k] = limiter.buckets[k]
    /\ \A k \in DOMAIN twin.limiter.buckets \ DOMAIN limiter.buckets :
          now - twin.limiter.buckets[k].lastRefill > BucketIdleMs

\* C37 witness: after a sweep evicted both buckets, one key was referenced
\* again, its bucket was recreated and the call was answered as on the
\* reference limiter, which still holds the other key's bucket as well.
C37_Witness ==
    /\ Called
    /\ LastAllow.fresh
    /\ LastAllow.t > BucketIdleMs
    /\ LastAllow.ok /\ LastAllow.twinOk
    /\ DOMAIN limiter.buckets = {LastAllow.key}
    /\ DOMAIN twin.limiter.buckets = RateKeys
    /\ twin.limiter.buckets[LastAllow.key] = limiter.buckets[LastAllow.key]

\* C38: when allow('global', 1) admits a request and allow('user:<id>', 1)
\* then denies it, the request is answered 429 and the global bucket is left
\* one token below its refilled level: nothing is given back, so the global
\* bucket has paid for more requests than went on to the body.
C38_UserDenialKeepsGlobalDebit ==
    [][(Len(gateLog') = Len(gateLog) + 1
          /\ gateLog'[Len(gateLog')].globalOk /\ ~gateLog'[Len(gateLog')].userOk)
       => /\ gateLog'[Len(gateLog')].status = 429
          /\ limiter'.buckets["global"].tokensMilli
               = RefillBucket(GetBucket(limiter, "global", now).buckets["global"], now).tokensMilli - TokenScale
          /\ limiter'.buckets["global"].lastRefill = now
          /\ \A k \in DOMAIN limiter.buckets \ {"global"} :
               limiter'.buckets[k].tokensMilli = RefillBucket(limiter.buckets[k], now).tokensMilli
                 \/ limiter'.buckets[k] = limiter.buckets[k]]_vars

\* C38 witness: all requests so far came at time 0, the latest was admitted
\* by the global check and denied by the per-user check, and the global
\* bucket is short of every request that passed the global check, among them
\* those answered 429.
C38_Witness ==
    /\ now = 0
    /\ Len(gateLog) > 0
    /\ gateLog[Len(gateLog)].globalOk /\ ~gateLog[Len(gateLog)].userOk
    /\ gateLog[Len(gateLog)].status = 429
    /\ limiter.buckets["global"].tokensMilli
         = (DefaultGlobalRps - Cardinality({i \in 1..Len(gateLog) : gateLog[i].globalOk})) * TokenScale
    /\ Cardinality({i \in 1..Len(gateLog) : gateLog[i].status = 0})
         < Cardinality({i \in 1..Len(gateLog) : gateLog[i].globalOk})

\* C34: the idempotency cache changes only in the step that answers a
\* request carrying an Idempotency-Key with the upstream's success, and then
\* by that key's entry alone, which is set to the answer and the current
\* time, overwriting an earlier entry; a step that answers a request with an
\* error leaves the cache unchanged.
C34_OnlySuccessIsCached ==
    [][/\ \A r \in Requests :
            (reqs[r].pc # "done" /\ reqs'[r].pc = "done" /\ ~reqs'[r].response.success)
                => cache' = cache
       /\ cache' # cache =>
            \E r \in Requests :
                /\ reqs[r].pc = "upstream" /\ reqs'[r].pc = "done"
                /\ reqs[r].idempotencyKey # ""
                /\ reqs'[r].response.status = 200 /\ reqs'[r].response.success
                /\ reqs'[r].response.from = "upstream"
                /\ cache' = (reqs[r].idempotencyKey :>
                               [response |-> reqs'[r].response, timestamp |-> now]) @@ cache]_vars

\* C34 witness: a request whose lookup found its key's entry too old went
\* upstream and was answered with an error; the entry is still the one
\* stored 300000 ms ago.
C34_Witness ==
    \E r \in Requests :
        /\ reqs[r].pc = "done" /\ reqs[r].staleSeen
        /\ reqs[r].call.pc = "thrown"
        /\ reqs[r].response.status \in {429, 500, 502}
        /\ now = IdempotencyTtlMs
        /\ DOMAIN cache = {"key-1"}
        /\ cache["key-1"].timestamp = 0

\* C35 as stated: a request that passed the rate-limit checks and carries a
\* key whose entry is less than 5 minutes old is answered with the cached
\* response, whatever its user id and its body.
C35_KeyAloneDecides ==
    \A r \in Requests, key \in IdempotencyKeys, body \in ProxyBodies :
        (reqs[r].pc = "awaitBody" /\ CacheHit(cache, key, now)) =>
            LET answered == ProxyBody(reqs[r], cache, now, body, key)
            IN  /\ answered.pc = "done"
                /\ answered.response = [cache[key].response EXCEPT !.from = "cache"]

\* C35: a request that passed the rate-limit checks, whose body parses to a
\* truthy JSON value and which carries a key whose entry is less than 5
\* minutes old is answered with the cached response, whatever its user id
\* and whatever that body holds; no part of the answer comes from the
\* request.
C35_KeyAloneDecidesParsedBody ==
    \A r \in Requests, key \in IdempotencyKeys, body \in ProxyBodies :
        (reqs[r].pc = "awaitBody" /\ CacheHit(cache, key, now)
           /\ body.kind \notin {"unparseable", "null"}) =>
            LET answered == ProxyBody(reqs[r], cache, now, body, key)
            IN  /\ answered.pc = "done"
                /\ answered.response = [cache[key].response EXCEPT !.from = "cache"]

\* C35 witness: at time 0 two requests have passed the global check, one of
\* each user (a user's bucket holds one token); one stored its answer under
\* key-1 and the other, whose body is not even an object, was answered with
\* that entry.
C35_Witness ==
    \E r \in Requests :
        /\ now = 0
        /\ reqs[r].pc = "done" /\ reqs[r].response.from = "cache"
        /\ reqs[r].bodyKind = "scalar"
        /\ "key-1" \in DOMAIN cache
        /\ reqs[r].response = [cache["key-1"].response EXCEPT !.from = "cache"]
        /\ {UserKey(ExtractUserId("")), UserKey(ExtractUserId("alice"))} \subseteq DOMAIN limiter.buckets
        /\ \A k \in DOMAIN limiter.buckets : limiter.buckets[k].tokensMilli = 0

\* C36: the cache changes only when a returned call's answer is stored
\* under the request's key; if the map then holds more than 1000 entries,
\* exactly the entries stored more than 10 minutes ago are deleted in the
\* same step and the others are kept as they are; if it holds at most 1000
\* nothing is deleted, however old.
C36_SweepOnlyAboveThreshold ==
    [][LET req == reqs[1]
           stored == req.pc = "upstream" /\ reqs'[1].pc = "done"
                       /\ req.call.pc = "returned" /\ req.idempotencyKey # ""
           put == (req.idempotencyKey :> [response |-> reqs'[1].response, timestamp |-> now]) @@ cache
           aged == {k \in DOMAIN put : now - put[k].timestamp > 600000}
       IN  /\ ~stored => cache' = cache
           /\ (stored /\ Cardinality(DOMAIN put) > 1000) =>
                 /\ DOMAIN cache' = DOMAIN put \ aged
                 /\ \A k \in DOMAIN cache' : cache'[k] = put[k]
           /\ (stored /\ Cardinality(DOMAIN put) <= 1000) => cache' = put]_vars

\* C36 witness: the initial cache held at least 999 entries, so fewer than
\* 999 are left only by a sweep; the sweep came with the put at 600001 ms,
\* deleted the entries stored at 0 ms and kept those stored at 1 ms, exactly
\* 10 minutes old.
C36_Witness ==
    /\ now = CacheRetentionMs + 1
    /\ reqs[1].pc = "done" /\ reqs[1].response.success
    /\ Cardinality(DOMAIN cache) < CacheSweepSize - 1
    /\ \E k \in DOMAIN cache : cache[k].timestamp = now
    /\ \E k \in DOMAIN cache : cache[k].timestamp = 1
    /\ \A k \in DOMAIN cache : cache[k].timestamp >= 1

\* C39: every invocation of a release token adds a permit or hands one to
\* the head waiter, the second invocation of a token as the first: permits
\* plus running holders equals maxPermits plus the number of second
\* invocations.  So the bound of maxPermits holds while no token has been
\* invoked twice, and is exceeded (by permits, by holders, or by their sum)
\* once one has.
C39_TokenNotSingleUse ==
    /\ sem.permits + Cardinality(Holders) = sem.maxPermits + Cardinality(Reused)
    /\ sem.permits >= 0
    /\ Reused = {} => sem.permits <= sem.maxPermits /\ Cardinality(Holders) <= sem.maxPermits
    /\ Reused # {} => sem.permits + Cardinality(Holders) > sem.maxPermits

\* C39 witness: with one permit, one caller has invoked its token twice and
\* two other callers hold a token at once, one woken from the queue and one
\* admitted by acquire.
C39_Witness ==
    /\ sem.maxPermits = 1
    /\ Cardinality(Reused) = 1
    /\ Cardinality(Holders) = 2
    /\ Cardinality(woken \cap Holders) = 1
    /\ sem.permits = 0

\* C32: beside a run with the same allow calls and sweeps and no snapshot,
\* every allow returns the same result and the same buckets exist.
C32_SnapshotReadOnly ==
    /\ Called => LastAllow.ok = LastAllow.twinOk
    /\ DOMAIN limiter.buckets = DOMAIN twin.limiter.buckets

\* C9: a chatCompletion call issues at most maxRetries fetches and, every
\* fetch and sleep completing, ends in success, a fatal failure or
\* exhaustion; when every outcome was retryable (429, 5xx, network error) it
\* has issued exactly maxRetries fetches.
C9_BoundedAttempts ==
    /\ [](call.issued <= retryConfig.maxRetries)
    /\ [](ChatTerminated => call.exit \in {"success", "fatal", "exhausted"})
    /\ [](ChatTerminated /\ call.allRetryable => call.issued = retryConfig.maxRetries)
    /\ <>ChatTerminated

\* C9 witness: with the default budget, six retryable outcomes in a row ended
\* the call by exhaustion.
C9_Witness ==
    /\ retryConfig.maxRetries = DefaultMaxRetries
    /\ call.pc = "thrown"
    /\ call.exit = "exhausted"
    /\ call.allRetryable
    /\ call.issued = DefaultMaxRetries
    /\ call.sleeps = DefaultMaxRetries - 1

\* C10: once an attempt receives a 4xx status other than 429 the call has
\* failed with an error carrying that status; that attempt was the last
\* fetch issued and no sleep followed it, whatever the attempt number.
C10_Fatal4xxFailsAtOnce ==
    (call.lastStatus \in 400..499 /\ call.lastStatus # 429) =>
        /\ call.pc = "thrown"
        /\ call.error.hasStatus
        /\ call.error.status = call.lastStatus
        /\ call.issued = call.lastAttempt
        /\ call.sleeps = call.lastAttempt - 1

\* C10 witness: a 404 on the third attempt, after two retried failures.
C10_Witness ==
    /\ call.lastStatus = 404
    /\ call.lastAttempt = 3
    /\ call.pc = "thrown"
    /\ call.sleeps = 2

====
